---- MODULE Spec2Model ----
(***************************************************************************)
(* Model of the daily trading bot: the indicator pipeline, the factor      *)
(* analyzers and the vote aggregator of bot.py, the order sizing and       *)
(* execution of bot.py, and the run of main.py with its end-of-run         *)
(* reporting.                                                              *)
(*                                                                         *)
(* Numbers.  Prices and indicator values are floats in the source; here    *)
(* they are integers (prices in whole dollars, the volume ratio in         *)
(* hundredths, the sentiment score in tenths).  A float that is            *)
(* not-a-number is the value NaN, and every comparison goes through Lt/Gt, *)
(* which are false as soon as one operand is NaN, as IEEE comparisons are. *)
(*                                                                         *)
(* Series.  A DataFrame is a record: n is its number of rows, high/low/    *)
(* close are the trailing rows of those columns (at most 10, oldest        *)
(* first), and every indicator column is the pair <<previous, latest>> of  *)
(* its last two rows.  The indicator columns of a fetched series hold what *)
(* the indicator library computes from a full window; the pipeline leaves  *)
(* a value undefined when the series is shorter than the window.           *)
(***************************************************************************)
EXTENDS Integers, Sequences, FiniteSets, TLC

\* ------------------------------------------------------------------------
\* Bounds of the model
\* ------------------------------------------------------------------------
MaxBars == 51

MaxSymbols == 2

MaxBuyingPower == 1000

MaxPosition == 7

MaxSignals == 2

MaxEnvLen == 3

MaxBrokerQueries == 3

MaxSelections == 1

\* ------------------------------------------------------------------------
\* Floats with not-a-number
\* ------------------------------------------------------------------------
NaN == -1000000

IsNa(x) == x = NaN

Lt(a, b) == ~IsNa(a) /\ ~IsNa(b) /\ a < b

Gt(a, b) == ~IsNa(a) /\ ~IsNa(b) /\ a > b

Abs(x) == IF x < 0 THEN -x ELSE x

Max2(a, b) == IF a >= b THEN a ELSE b

RECURSIVE SumSeq(_)
SumSeq(s) == IF s = <<>> THEN 0 ELSE Head(s) + SumSeq(Tail(s))

RECURSIVE MinSeq(_)
MinSeq(s) == IF Len(s) = 1 THEN s[1]
             ELSE LET m == MinSeq(Tail(s)) IN IF s[1] <= m THEN s[1] ELSE m

RECURSIVE MaxSeq(_)
MaxSeq(s) == IF Len(s) = 1 THEN s[1]
             ELSE LET m == MaxSeq(Tail(s)) IN IF s[1] >= m THEN s[1] ELSE m

\* the last k elements of s (all of s when it is shorter)
LastK(s, k) == IF Len(s) <= k THEN s ELSE SubSeq(s, Len(s) - k + 1, Len(s))

\* Python's None, for a missing series, a missing analyzer opinion and the
\* value place_sell_order returns when there is nothing to sell
None == [none |-> TRUE]

\* ------------------------------------------------------------------------
\* Indicator pipeline
\* ------------------------------------------------------------------------
MIN_BARS == 30

RSI_OVERSOLD == 30

RSI_OVERBOUGHT == 70

SMA_SHORT_WINDOW == 20

SMA_LONG_WINDOW == 50

MACD_SLOW_WINDOW == 26

MACD_SIGN_WINDOW == 9

\* a column computed over a window of w rows is undefined on row r (counted
\* from 1) when r < w; col is <<previous, latest>> of a series of n rows
\* variant: a rolling value is defined on every row
Windowed_AlwaysDefined(col, n, w) == col

Windowed(col, n, w) ==
    << IF n - 1 < w THEN NaN ELSE col[1], IF n < w THEN NaN ELSE col[2] >>

\* variant: the length guard is missing
CalculateTechnicalIndicators_NoLengthGuard(df) ==
    IF df = None THEN None
    ELSE [df EXCEPT
            !.macd        = Windowed(df.macd, df.n, MACD_SLOW_WINDOW),
            !.macd_signal = Windowed(df.macd_signal, df.n,
                                     MACD_SLOW_WINDOW + MACD_SIGN_WINDOW - 1),
            !.sma_20      = Windowed(df.sma_20, df.n, SMA_SHORT_WINDOW),
            !.sma_50      = Windowed(df.sma_50, df.n, SMA_LONG_WINDOW),
            !.volume_ratio = Windowed(df.volume_ratio, df.n, SMA_SHORT_WINDOW)]

CalculateTechnicalIndicators(df) ==
    IF df = None \/ df.n < MIN_BARS THEN None
    ELSE [df EXCEPT
            !.macd        = Windowed(df.macd, df.n, MACD_SLOW_WINDOW),
            !.macd_signal = Windowed(df.macd_signal, df.n,
                                     MACD_SLOW_WINDOW + MACD_SIGN_WINDOW - 1),
            !.sma_20      = Windowed(df.sma_20, df.n, SMA_SHORT_WINDOW),
            !.sma_50      = Windowed(df.sma_50, df.n, SMA_LONG_WINDOW),
            !.volume_ratio = Windowed(df.volume_ratio, df.n, SMA_SHORT_WINDOW)]

\* df.iloc[-1] and df.iloc[-2]
Row(df, k) ==
    [close        |-> df.close[Len(df.close) - (2 - k)],
     rsi          |-> df.rsi[k],
     macd         |-> df.macd[k],
     macd_signal  |-> df.macd_signal[k],
     sma_20       |-> df.sma_20[k],
     sma_50       |-> df.sma_50[k],
     volume_ratio |-> df.volume_ratio[k]]

Latest(df) == Row(df, 2)

Previous(df) == Row(df, 1)

\* ------------------------------------------------------------------------
\* Factor analyzers
\* ------------------------------------------------------------------------
Opinion(label, reason) == [label |-> label, reason |-> reason]

NoOpinion == Opinion("None", "None")

HIGH_VOLUME_RATIO == 150

LOW_VOLUME_RATIO == 50

\* variant: the high-volume test is written as "not (ratio <= 1.5)", which
\* is true of an undefined ratio
AnalyzeVolume_NegatedTest(df) ==
    IF df = None \/ df.n < 2 THEN NoOpinion
    ELSE LET latest == Latest(df)
             previous == Previous(df)
         IN IF ~(~IsNa(latest.volume_ratio)
                 /\ latest.volume_ratio <= HIGH_VOLUME_RATIO)
            THEN IF Gt(latest.close, previous.close)
                 THEN Opinion("BULLISH", "High volume breakout")
                 ELSE Opinion("BEARISH", "High volume selling")
            ELSE IF Lt(latest.volume_ratio, LOW_VOLUME_RATIO)
                 THEN Opinion("NEUTRAL", "Low volume")
                 ELSE Opinion("NEUTRAL", "Normal volume")

\* variant: high volume with an unchanged close is normal volume
AnalyzeVolume_UnchangedIsNormal(df) ==
    IF df = None \/ df.n < 2 THEN NoOpinion
    ELSE LET latest == Latest(df)
             previous == Previous(df)
         IN IF Gt(latest.volume_ratio, HIGH_VOLUME_RATIO)
               /\ latest.close # previous.close
            THEN IF Gt(latest.close, previous.close)
                 THEN Opinion("BULLISH", "High volume breakout")
                 ELSE Opinion("BEARISH", "High volume selling")
            ELSE IF Lt(latest.volume_ratio, LOW_VOLUME_RATIO)
                 THEN Opinion("NEUTRAL", "Low volume")
                 ELSE Opinion("NEUTRAL", "Normal volume")

AnalyzeVolume(df) ==
    IF df = None \/ df.n < 2 THEN NoOpinion
    ELSE LET latest == Latest(df)
             previous == Previous(df)
         IN IF Gt(latest.volume_ratio, HIGH_VOLUME_RATIO)
            THEN IF Gt(latest.close, previous.close)
                 THEN Opinion("BULLISH", "High volume breakout")
                 ELSE Opinion("BEARISH", "High volume selling")
            ELSE IF Lt(latest.volume_ratio, LOW_VOLUME_RATIO)
                 THEN Opinion("NEUTRAL", "Low volume")
                 ELSE Opinion("NEUTRAL", "Normal volume")

\* the local maxima of a window, oldest first
RECURSIVE PeaksFrom(_, _)
PeaksFrom(h, i) ==
    IF i > Len(h) - 1 THEN <<>>
    ELSE (IF h[i] > h[i-1] /\ h[i] > h[i+1] THEN <<h[i]>> ELSE <<>>)
         \o PeaksFrom(h, i + 1)

Peaks(h) == PeaksFrom(h, 2)

\* the local minima of a window, oldest first
RECURSIVE TroughsFrom(_, _)
TroughsFrom(l, i) ==
    IF i > Len(l) - 1 THEN <<>>
    ELSE (IF l[i] < l[i-1] /\ l[i] < l[i+1] THEN <<l[i]>> ELSE <<>>)
         \o TroughsFrom(l, i + 1)

Troughs(l) == TroughsFrom(l, 2)

\* abs(p[-1] - p[-2]) / p[-1] < 0.02, for positive prices
Within2Percent(p) ==
    100 * Abs(p[Len(p)] - p[Len(p) - 1]) < 2 * p[Len(p)]

DoubleTop(df) ==
    LET highs == LastK(df.high, 10)
        peaks == Peaks(highs)
    IN /\ Len(highs) >= 5
       /\ Len(peaks) >= 2
       /\ Within2Percent(peaks)
       /\ df.close[Len(df.close)] < MinSeq(LastK(highs, 3))

DoubleBottom(df) ==
    LET lows == LastK(df.low, 10)
        troughs == Troughs(lows)
    IN /\ Len(lows) >= 5
       /\ Len(troughs) >= 2
       /\ Within2Percent(troughs)
       /\ df.close[Len(df.close)] > MaxSeq(LastK(lows, 3))

\* variant: the double-bottom check comes first
DetectPricePatterns_BottomFirst(df) ==
    IF df = None \/ df.n < 10 THEN NoOpinion
    ELSE LET recent == LastK(df.close, 10)
             last == df.close[Len(df.close)]
         IN IF DoubleBottom(df)
            THEN Opinion("BULLISH", "Double bottom pattern detected")
            ELSE IF DoubleTop(df)
            THEN Opinion("BEARISH", "Double top pattern detected")
            ELSE IF last * Len(recent) * 100 > SumSeq(recent) * 105
            THEN Opinion("BULLISH", "Strong upward trend")
            ELSE IF last * Len(recent) * 100 < SumSeq(recent) * 95
            THEN Opinion("BEARISH", "Strong downward trend")
            ELSE Opinion("NEUTRAL", "No clear pattern")

\* variant: the length guard is at 5 rows, as the later test on highs
DetectPricePatterns_GuardAtFive(df) ==
    IF df = None \/ df.n < 5 THEN NoOpinion
    ELSE LET recent == LastK(df.close, 10)
             last == df.close[Len(df.close)]
         IN IF DoubleTop(df)
            THEN Opinion("BEARISH", "Double top pattern detected")
            ELSE IF DoubleBottom(df)
            THEN Opinion("BULLISH", "Double bottom pattern detected")
            ELSE IF last * Len(recent) * 100 > SumSeq(recent) * 105
            THEN Opinion("BULLISH", "Strong upward trend")
            ELSE IF last * Len(recent) * 100 < SumSeq(recent) * 95
            THEN Opinion("BEARISH", "Strong downward trend")
            ELSE Opinion("NEUTRAL", "No clear pattern")

DetectPricePatterns(df) ==
    IF df = None \/ df.n < 10 THEN NoOpinion
    ELSE LET recent == LastK(df.close, 10)
             last == df.close[Len(df.close)]
         IN IF DoubleTop(df)
            THEN Opinion("BEARISH", "Double top pattern detected")
            ELSE IF DoubleBottom(df)
            THEN Opinion("BULLISH", "Double bottom pattern detected")
            \* close > mean * 1.05  and  close < mean * 0.95
            ELSE IF last * Len(recent) * 100 > SumSeq(recent) * 105
            THEN Opinion("BULLISH", "Strong upward trend")
            ELSE IF last * Len(recent) * 100 < SumSeq(recent) * 95
            THEN Opinion("BEARISH", "Strong downward trend")
            ELSE Opinion("NEUTRAL", "No clear pattern")

\* the placeholder score of analyze_sentiment, in tenths
SENTIMENT_SCORE == 0

AnalyzeSentiment(symbol) ==
    IF SENTIMENT_SCORE > 3 THEN Opinion("POSITIVE", "Positive news sentiment")
    ELSE IF SENTIMENT_SCORE < -3
    THEN Opinion("NEGATIVE", "Negative news sentiment")
    ELSE Opinion("NEUTRAL", "Neutral news sentiment")

\* ------------------------------------------------------------------------
\* Signal aggregator
\* ------------------------------------------------------------------------
SIGNAL_THRESHOLD == 3

Vote(buy, sell, reasons) == [buy |-> buy, sell |-> sell, reasons |-> reasons]

NoVote == Vote(0, 0, <<>>)

BuyVote(reason) == Vote(1, 0, <<reason>>)

SellVote(reason) == Vote(0, 1, <<reason>>)

\* the running counters buy_signals, sell_signals and the list reasons
AddVote(t, v) == Vote(t.buy + v.buy, t.sell + v.sell, t.reasons \o v.reasons)

\* variant: an oversold RSI is counted twice
RsiVote_CountsTwice(latest) ==
    IF ~IsNa(latest.rsi)
    THEN IF Lt(latest.rsi, RSI_OVERSOLD) THEN Vote(2, 0, << "RSI oversold" >>)
         ELSE IF Gt(latest.rsi, RSI_OVERBOUGHT) THEN SellVote("RSI overbought")
         ELSE NoVote
    ELSE NoVote

RsiVote(latest) ==
    IF ~IsNa(latest.rsi)
    THEN IF Lt(latest.rsi, RSI_OVERSOLD) THEN BuyVote("RSI oversold")
         ELSE IF Gt(latest.rsi, RSI_OVERBOUGHT) THEN SellVote("RSI overbought")
         ELSE NoVote
    ELSE NoVote

MacdVote(latest, previous) ==
    IF ~IsNa(latest.macd) /\ ~IsNa(previous.macd)
       /\ ~IsNa(latest.macd_signal) /\ ~IsNa(previous.macd_signal)
    THEN IF Lt(previous.macd, previous.macd_signal)
            /\ Gt(latest.macd, latest.macd_signal)
         THEN BuyVote("MACD bullish crossover")
         ELSE IF Gt(previous.macd, previous.macd_signal)
                 /\ Lt(latest.macd, latest.macd_signal)
         THEN SellVote("MACD bearish crossover")
         ELSE NoVote
    ELSE NoVote

SmaDefined(latest, previous) ==
    ~IsNa(latest.sma_20) /\ ~IsNa(latest.sma_50)
    /\ ~IsNa(previous.sma_20) /\ ~IsNa(previous.sma_50)

CrossVote(latest, previous, golden, death) ==
    IF SmaDefined(latest, previous)
    THEN IF Lt(previous.sma_20, previous.sma_50)
            /\ Gt(latest.sma_20, latest.sma_50)
         THEN BuyVote(golden)
         ELSE IF Gt(previous.sma_20, previous.sma_50)
                 /\ Lt(latest.sma_20, latest.sma_50)
         THEN SellVote(death)
         ELSE NoVote
    ELSE NoVote

PriceVote(latest, previous, above, below) ==
    IF SmaDefined(latest, previous)
    THEN IF Gt(latest.close, latest.sma_20) /\ Gt(latest.sma_20, latest.sma_50)
         THEN BuyVote(above)
         ELSE IF Lt(latest.close, latest.sma_20)
                 /\ Lt(latest.sma_20, latest.sma_50)
         THEN SellVote(below)
         ELSE NoVote
    ELSE NoVote

\* a factor analyzer's opinion as a vote; pos and neg are the labels that
\* count (BULLISH/BEARISH, or POSITIVE/NEGATIVE for sentiment)
FactorVote(op, pos, neg) ==
    IF op.label = pos THEN BuyVote(op.reason)
    ELSE IF op.label = neg THEN SellVote(op.reason)
    ELSE NoVote

\* the tally of generate_signals on an indicator-augmented series
SignalTally(symbol, df) ==
    LET latest == Latest(df)
        previous == Previous(df)
        volume == AnalyzeVolume(df)
        pattern == DetectPricePatterns(df)
        sentiment == AnalyzeSentiment(symbol)
        t1 == AddVote(NoVote, RsiVote(latest))
        t2 == AddVote(t1, MacdVote(latest, previous))
        t3 == AddVote(t2, CrossVote(latest, previous,
                                    "Golden cross (SMA 20 > SMA 50)",
                                    "Death cross (SMA 20 < SMA 50)"))
        t4 == AddVote(t3, PriceVote(latest, previous,
                                    "Price above rising moving averages",
                                    "Price below falling moving averages"))
        t5 == AddVote(t4, FactorVote(volume, "BULLISH", "BEARISH"))
        t6 == AddVote(t5, FactorVote(pattern, "BULLISH", "BEARISH"))
    IN AddVote(t6, FactorVote(sentiment, "POSITIVE", "NEGATIVE"))

\* a signal is the tuple (action, reason); the reason keeps the prefix and
\* the joined reasons as a sequence
Signal(action, reasons) == << action, <<action>> \o reasons >>

\* variant: the thresholds are exclusive
Decide_ExclusiveThreshold(buy_signals, sell_signals, reasons) ==
    IF buy_signals > SIGNAL_THRESHOLD THEN << Signal("BUY", reasons) >>
    ELSE IF sell_signals > SIGNAL_THRESHOLD THEN << Signal("SELL", reasons) >>
    ELSE <<>>

\* variant: the SELL test is an independent if, not an elif
Decide_IndependentTests(buy_signals, sell_signals, reasons) ==
    (IF buy_signals >= SIGNAL_THRESHOLD
     THEN << Signal("BUY", reasons) >> ELSE <<>>)
    \o (IF sell_signals >= SIGNAL_THRESHOLD
        THEN << Signal("SELL", reasons) >> ELSE <<>>)

\* the final decision of generate_signals on its two counters
Decide(buy_signals, sell_signals, reasons) ==
    IF buy_signals >= SIGNAL_THRESHOLD THEN << Signal("BUY", reasons) >>
    ELSE IF sell_signals >= SIGNAL_THRESHOLD THEN << Signal("SELL", reasons) >>
    ELSE <<>>

\* generate_signals(symbol), given the series its fetch returns
GenerateSignals(symbol, fetched) ==
    IF fetched = None \/ fetched.n < MIN_BARS THEN <<>>
    ELSE LET a == CalculateTechnicalIndicators(fetched)
         IN IF a = None THEN <<>>
            ELSE LET t == SignalTally(symbol, a)
                 IN Decide(t.buy, t.sell, t.reasons)

\* the tally of the metadata pass of generate_signals_with_metadata
MetadataTally(symbol, df) ==
    LET latest == Latest(df)
        previous == Previous(df)
        t1 == AddVote(NoVote, RsiVote(latest))
        t2 == AddVote(t1, MacdVote(latest, previous))
        t3 == AddVote(t2, CrossVote(latest, previous,
                                    "Golden cross", "Death cross"))
        t4 == AddVote(t3, PriceVote(latest, previous,
                                    "Price above rising MAs",
                                    "Price below falling MAs"))
        volume == AnalyzeVolume(df)
        pattern == DetectPricePatterns(df)
        sentiment == AnalyzeSentiment(symbol)
        t5 == AddVote(t4, FactorVote(volume, "BULLISH", "BEARISH"))
        t6 == AddVote(t5, FactorVote(pattern, "BULLISH", "BEARISH"))
    IN AddVote(t6, FactorVote(sentiment, "POSITIVE", "NEGATIVE"))

Metadata(symbol, signals, buy_count, sell_count, factors) ==
    [symbol |-> symbol, signals |-> signals, buy_count |-> buy_count,
     sell_count |-> sell_count, factors |-> factors]

\* generate_signals_with_metadata(symbol): fetched is the series the fetch
\* of generate_signals returns, again the one the metadata pass gets
GenerateSignalsWithMetadata(symbol, fetched, again) ==
    LET sigs == GenerateSignals(symbol, fetched)
        a == IF again # None /\ again.n >= MIN_BARS
             THEN CalculateTechnicalIndicators(again) ELSE None
    IN IF a # None
       THEN LET t == MetadataTally(symbol, a)
            IN << sigs, Metadata(symbol, sigs, t.buy, t.sell, t.reasons) >>
       ELSE << sigs, Metadata(symbol, sigs, 0, 0, <<>>) >>

\* ------------------------------------------------------------------------
\* Order sizing and execution
\* ------------------------------------------------------------------------
\* one call to the brokerage or market-data client, or to time.sleep
Call(op, symbol, arg) == [op |-> op, symbol |-> symbol, arg |-> arg]

\* the outcome of a call of the bot: an exception or a returned value, with
\* the external calls it made, oldest first
Raised(calls) == [raised |-> TRUE, value |-> None, calls |-> calls]

Returned(value, calls) == [raised |-> FALSE, value |-> value, calls |-> calls]

\* int(x / y) for y > 0: Python's int() truncates toward zero
TruncDiv(x, y) == IF x >= 0 THEN x \div y ELSE -((-x) \div y)

\* variant: the minimum of one share is missing
Shares_NoMinimum(buying_power, current_price) ==
    TruncDiv(buying_power * 2, 10 * current_price)

\* max_position_size = buying_power * 0.2
\* shares = max(1, int(max_position_size / current_price))
Shares(buying_power, current_price) ==
    Max2(1, TruncDiv(buying_power * 2, 10 * current_price))

DryRunResult(symbol, action, reason, shares, price) ==
    [symbol |-> symbol, action |-> action, reason |-> reason,
     shares |-> shares, price |-> price, status |-> "DRY_RUN"]

SubmittedResult(symbol, action, reason, shares, price, order_id) ==
    [symbol |-> symbol, action |-> action, reason |-> reason,
     shares |-> shares, price |-> price, order_id |-> order_id,
     status |-> "SUBMITTED"]

\* variant: the buying power is the one the run started with, not fetched
\* in the call
PlaceBuyOrder_StartOfRunAccount(symbol, reason, dry_run, b) ==
    LET c2 == << Call("get_stock_latest_quote", symbol, b.ask_price) >>
    IN IF ~b.quote_ok
       THEN Raised(<< Call("get_stock_latest_quote", symbol, 0) >>)
       ELSE IF b.ask_price = 0 THEN Raised(c2)
       ELSE LET shares == Shares(MaxBuyingPower, b.ask_price)
                c3 == c2 \o << Call("submit_order", symbol,
                                    << "BUY", shares >>) >>
            IN IF dry_run
               THEN Returned(DryRunResult(symbol, "BUY", reason, shares,
                                          b.ask_price), c2)
               ELSE IF ~b.submit_ok THEN Raised(c3)
               ELSE Returned(SubmittedResult(symbol, "BUY", reason, shares,
                                             b.ask_price, b.order_id), c3)

\* place_buy_order(symbol, reason).  The broker answers are: account_ok and
\* buying_power (get_account), quote_ok and ask_price (latest quote),
\* submit_ok and order_id (submit_order).
PlaceBuyOrder(symbol, reason, dry_run, b) ==
    LET c1 == << Call("get_account", "", b.buying_power) >>
        c2 == c1 \o << Call("get_stock_latest_quote", symbol, b.ask_price) >>
    IN IF ~b.account_ok THEN Raised(<< Call("get_account", "", 0) >>)
       ELSE IF ~b.quote_ok
       THEN Raised(c1 \o << Call("get_stock_latest_quote", symbol, 0) >>)
       \* a zero ask price: the division raises ZeroDivisionError
       ELSE IF b.ask_price = 0 THEN Raised(c2)
       ELSE LET shares == Shares(b.buying_power, b.ask_price)
                c3 == c2 \o << Call("submit_order", symbol,
                                    << "BUY", shares >>) >>
            IN IF dry_run
               THEN Returned(DryRunResult(symbol, "BUY", reason, shares,
                                          b.ask_price), c2)
               ELSE IF ~b.submit_ok THEN Raised(c3)
               ELSE Returned(SubmittedResult(symbol, "BUY", reason, shares,
                                             b.ask_price, b.order_id), c3)

\* int(position.qty).  A quantity is a number of tenths of a share; the
\* position holds it as a string (qty_text) or as a number.  int() of the
\* string of a fractional number raises ValueError, int() of a number
\* truncates toward zero.
IntRaises(qty, qty_text) == qty_text /\ qty % 10 # 0

IntOf(qty) == TruncDiv(qty, 10)

\* the part of place_sell_order after the position was found
SellFound(symbol, reason, dry_run, b, c1, shares) ==
    LET c2 == c1 \o << Call("get_stock_latest_quote", symbol, b.ask_price) >>
        c3 == c2 \o << Call("submit_order", symbol, << "SELL", shares >>) >>
    IN IF ~b.quote_ok
       THEN Raised(c1 \o << Call("get_stock_latest_quote", symbol, 0) >>)
       ELSE IF dry_run
       THEN Returned(DryRunResult(symbol, "SELL", reason, shares,
                                  b.ask_price), c2)
       ELSE IF ~b.submit_ok THEN Raised(c3)
       ELSE Returned(SubmittedResult(symbol, "SELL", reason, shares,
                                     b.ask_price, b.order_id), c3)

\* variant: the order is submitted whatever DRY_RUN says
PlaceSellOrder_IgnoresDryRun(symbol, reason, dry_run, b) ==
    LET c1 == << Call("get_open_position", symbol,
                      << b.position_ok, b.qty >>) >>
    IN IF ~b.position_ok \/ IntRaises(b.qty, b.qty_text)
       THEN Returned(None, c1)
       ELSE IF IntOf(b.qty) <= 0 THEN Returned(None, c1)
       ELSE SellFound(symbol, reason, FALSE, b, c1, IntOf(b.qty))

\* variant: a failed position lookup is not caught
PlaceSellOrder_LookupRaises(symbol, reason, dry_run, b) ==
    LET c1 == << Call("get_open_position", symbol,
                      << b.position_ok, b.qty >>) >>
    IN IF ~b.position_ok \/ IntRaises(b.qty, b.qty_text) THEN Raised(c1)
       ELSE IF IntOf(b.qty) <= 0 THEN Returned(None, c1)
       ELSE SellFound(symbol, reason, dry_run, b, c1, IntOf(b.qty))

\* place_sell_order(symbol, reason).  position_ok is false when
\* get_open_position raises (no position, or any other failure); qty is the
\* quantity of the position it returns.  The inner try covers the lookup
\* and the int() conversion.
PlaceSellOrder(symbol, reason, dry_run, b) ==
    LET c1 == << Call("get_open_position", symbol,
                      << b.position_ok, b.qty >>) >>
    IN IF ~b.position_ok \/ IntRaises(b.qty, b.qty_text)
       THEN Returned(None, c1)
       ELSE IF IntOf(b.qty) <= 0 THEN Returned(None, c1)
       ELSE SellFound(symbol, reason, dry_run, b, c1, IntOf(b.qty))

\* what one iteration of the loop of execute_trades leaves behind
Iteration(appended, failed, made) ==
    [appended |-> appended, failed |-> failed, calls |-> made]

PlaceOrder(symbol, signal, dry_run, b) ==
    IF signal[1] = "BUY" THEN PlaceBuyOrder(symbol, signal[2], dry_run, b)
    ELSE PlaceSellOrder(symbol, signal[2], dry_run, b)

\* variant: the append is in a finally clause and happens on failure too
ExecuteOne_AppendsOnFailure(symbol, signal, dry_run, b) ==
    LET r == PlaceOrder(symbol, signal, dry_run, b)
    IN IF signal[1] \notin { "BUY", "SELL" } THEN Iteration(<<>>, FALSE, <<>>)
       ELSE IF r.raised THEN Iteration(<< None >>, TRUE, r.calls)
       ELSE Iteration(<< r.value >>, FALSE,
                      r.calls \o << Call("sleep", "", 1) >>)

\* variant: a failed order is attempted a second time
ExecuteOne_Retries(symbol, signal, dry_run, b) ==
    LET r == PlaceOrder(symbol, signal, dry_run, b)
    IN IF signal[1] \notin { "BUY", "SELL" } THEN Iteration(<<>>, FALSE, <<>>)
       ELSE IF r.raised THEN Iteration(<<>>, TRUE, r.calls \o r.calls)
       ELSE Iteration(<< r.value >>, FALSE,
                      r.calls \o << Call("sleep", "", 1) >>)

\* variant: no pause after a DRY_RUN result
ExecuteOne_NoDryRunPause(symbol, signal, dry_run, b) ==
    LET r == PlaceOrder(symbol, signal, dry_run, b)
    IN IF signal[1] \notin { "BUY", "SELL" } THEN Iteration(<<>>, FALSE, <<>>)
       ELSE IF r.raised THEN Iteration(<<>>, TRUE, r.calls)
       ELSE IF r.value # None /\ r.value.status = "DRY_RUN"
       THEN Iteration(<< r.value >>, FALSE, r.calls)
       ELSE Iteration(<< r.value >>, FALSE,
                      r.calls \o << Call("sleep", "", 1) >>)

\* one iteration of the loop of execute_trades over (signal_type, reason):
\* the trade to append (if any), whether the iteration sleeps, and the
\* external calls it made
ExecuteOne(symbol, signal, dry_run, b) ==
    LET r == PlaceOrder(symbol, signal, dry_run, b)
    IN IF signal[1] \notin { "BUY", "SELL" } THEN Iteration(<<>>, FALSE, <<>>)
       ELSE IF r.raised THEN Iteration(<<>>, TRUE, r.calls)
       ELSE Iteration(<< r.value >>, FALSE,
                      r.calls \o << Call("sleep", "", 1) >>)

\* ------------------------------------------------------------------------
\* Input series
\* ------------------------------------------------------------------------
\* trailing 10-bar windows
Flat(x) == << x, x, x, x, x, x, x, x, x, x >>

FlatThen(x, y) == << x, x, x, x, x, x, x, x, x, y >>

TwoPeaks(x, y) == << x, y, x, x, y, x, x, x, x, x >>

Window(high, low, close) == [high |-> high, low |-> low, close |-> close]

WFlat == Window(Flat(101), Flat(99), Flat(100))

WRise == Window(Flat(102), Flat(98), FlatThen(100, 101))

WFall == Window(Flat(102), Flat(98), FlatThen(100, 99))

WUp == Window(FlatThen(101, 121), FlatThen(99, 119), FlatThen(100, 120))

WDown == Window(FlatThen(101, 81), FlatThen(99, 79), FlatThen(100, 80))

WDoubleTop == Window(TwoPeaks(100, 110), Flat(90), Flat(95))

WDoubleBottom == Window(Flat(110), TwoPeaks(100, 90), Flat(105))

WTopAndBottom == Window(TwoPeaks(100, 110), TwoPeaks(90, 80), Flat(95))

\* a double top whose close is above the mean by more than 5%, a double
\* bottom whose close is below it by more than 5%
WTopInUptrend == Window(TwoPeaks(100, 110), Flat(70), FlatThen(80, 95))

WBottomInDowntrend == Window(Flat(120), TwoPeaks(90, 80), FlatThen(110, 95))

Windows == { WFlat, WRise, WFall, WUp, WDown, WDoubleTop, WDoubleBottom,
             WTopAndBottom }

RsiValues == { 20, 30, 50, 70, 80 }

Macd(macd, macd_signal) == [macd |-> macd, macd_signal |-> macd_signal]

MacdBull == Macd(<<0, 1>>, <<1, 0>>)

MacdBear == Macd(<<1, 0>>, <<0, 1>>)

MacdFlat == Macd(<<0, 0>>, <<0, 0>>)

MacdValues == { MacdBull, MacdBear, MacdFlat }

Sma(sma_20, sma_50) == [sma_20 |-> sma_20, sma_50 |-> sma_50]

SmaGolden == Sma(<<50, 60>>, <<60, 50>>)

SmaDeath == Sma(<<160, 150>>, <<150, 160>>)

SmaAbove == Sma(<<60, 60>>, <<50, 50>>)

SmaGoldenOnly == Sma(<<130, 140>>, <<140, 130>>)

SmaFlat == Sma(<<100, 100>>, <<100, 100>>)

SmaValues == { SmaGolden, SmaDeath, SmaAbove, SmaGoldenOnly, SmaFlat }

VolumeRatios == { 30, 100, 200 }

Frame(n, w, rsi, m, s, vr) ==
    [n |-> n, high |-> w.high, low |-> w.low, close |-> w.close,
     rsi |-> <<rsi, rsi>>, macd |-> m.macd, macd_signal |-> m.macd_signal,
     sma_20 |-> s.sma_20, sma_50 |-> s.sma_50, volume_ratio |-> <<vr, vr>>]

\* the indicator values that bad input data can leave undefined
MaskFields == { "rsi", "macd_p", "macd_l", "sig_p", "sig_l",
                "s20_p", "s20_l", "s50_p", "s50_l", "vr" }

Cell(v, name, mask) == IF name \in mask THEN NaN ELSE v

Masked(f, mask) ==
    [f EXCEPT
       !.rsi = << f.rsi[1], Cell(f.rsi[2], "rsi", mask) >>,
       !.macd = << Cell(f.macd[1], "macd_p", mask),
                   Cell(f.macd[2], "macd_l", mask) >>,
       !.macd_signal = << Cell(f.macd_signal[1], "sig_p", mask),
                          Cell(f.macd_signal[2], "sig_l", mask) >>,
       !.sma_20 = << Cell(f.sma_20[1], "s20_p", mask),
                     Cell(f.sma_20[2], "s20_l", mask) >>,
       !.sma_50 = << Cell(f.sma_50[1], "s50_p", mask),
                     Cell(f.sma_50[2], "s50_l", mask) >>,
       !.volume_ratio = << f.volume_ratio[1],
                           Cell(f.volume_ratio[2], "vr", mask) >>]

\* numbers of bars around the minimum and around each indicator window
Lengths == { 29, 30, 34, 35, 49, 50, MaxBars }

FrameAllBull == Frame(MaxBars, WUp, 20, MacdBull, SmaGolden, 200)

FrameAllBear == Frame(MaxBars, WDown, 80, MacdBear, SmaDeath, 200)

FrameHold == Frame(MaxBars, WFlat, 50, MacdFlat, SmaFlat, 100)

\* numbers of rows around the minimum of analyze_volume (2) and of
\* detect_price_patterns (10), the empty series included
ShortLengths == { 0, 1, 2, 9, 10 }

\* a series of n <= 10 rows: the last n rows of a window
ShortFrame(n, w, vr) ==
    [Frame(n, w, 50, MacdFlat, SmaFlat, vr) EXCEPT
        !.high = LastK(w.high, n),
        !.low = LastK(w.low, n),
        !.close = LastK(w.close, n)]

\* the series generate_signals is applied to
Frames ==
    { None }
    \cup { Frame(n, w, r, m, s, v) :
             n \in Lengths, w \in Windows, r \in RsiValues,
             m \in MacdValues, s \in SmaValues, v \in VolumeRatios }
    \cup { Masked(f, mask) :
             f \in { FrameAllBull, FrameAllBear }, mask \in SUBSET MaskFields }
    \cup { Frame(MaxBars, w, 50, MacdFlat, SmaFlat, v) :
             w \in { WFlat, WRise, WFall },
             v \in { LOW_VOLUME_RATIO, HIGH_VOLUME_RATIO } }
    \cup { Frame(MaxBars, w, 50, MacdFlat, SmaFlat, 100) :
             w \in { WTopInUptrend, WBottomInDowntrend } }
    \cup { ShortFrame(n, w, v) :
             n \in ShortLengths, w \in { WFall, WUp, WDoubleTop },
             v \in { 100, 200 } }

\* the series a second fetch can return in place of the first
Refetched(f) == { f, None, FrameAllBear, [FrameAllBull EXCEPT !.n = 29] }

\* ------------------------------------------------------------------------
\* State
\* ------------------------------------------------------------------------
VARIABLES
    pc,          \* where the caller of the bot stands
    df,          \* the series the historical-data fetch returns
    indicators,  \* the value calculate_technical_indicators returned
    tally,       \* buy_signals, sell_signals and reasons of generate_signals
    signals,     \* the list generate_signals returned
    metadata,    \* the metadata of generate_signals_with_metadata
    refetched,   \* the series the metadata pass fetched
    env,              \* the environment variables Config reads
    config,           \* the Config object, or the error its construction raised
    DRY_RUN,          \* config.DRY_RUN
    trading_symbols,  \* the symbols main iterates over
    idx,              \* index in trading_symbols of the symbol main is at
    symbols_analyzed, \* main's dict symbol -> metadata, in insertion order
    all_signals,      \* main's list of every signal generated
    trades_executed,  \* main's list of every trade returned
    caller,           \* who called execute_trades: "main" or "api"
    cur_symbol,       \* the symbol execute_trades was called with
    queue,            \* the signals execute_trades has still to go through
    trades,           \* the local list trades of execute_trades
    result,           \* outcome of the last direct call of the bot
    buying_power,     \* broker: buying power of the account
    positions,        \* broker: held quantity per symbol, in tenths of a
                      \* share (0: no position)
    next_order_id,    \* broker: identifier the next accepted order gets
    calls,            \* every external call made so far, oldest first; the
                      \* requests of a loop over a set are one entry
    log,              \* the outcome logged for every signal executed
    daily_report,     \* the report generate_daily_report returned
    files,            \* the report files written so far
    now_et,           \* the Eastern date and time should_run_today read
    trading_client,   \* selector: whether a trading client was given
    broker_universe_cache, \* selector: _broker_universe_cache
    broker_cache_key, \* selector: _broker_cache_key
    get_all_symbols,  \* selector: the instance attribute hiding the method
    selector_log,     \* selector: the messages logged, oldest first
    selection,        \* selector: the arguments of the call made last and
                      \* the number of calls made
    selection_info,   \* the value get_selection_info returned last
    set_order         \* selector: the order in which the set of
                      \* get_all_symbols() iterates in this process, as
                      \* far as a loop over it depends on it; << >> until
                      \* the set is built

analysis_vars == << df, indicators, tally, signals, metadata, refetched >>

main_vars == << trading_symbols, idx, symbols_analyzed, all_signals,
                trades_executed, daily_report, files >>

exec_vars == << caller, cur_symbol, queue, trades, result >>

broker_vars == << buying_power, positions, next_order_id >>

config_vars == << env, config, DRY_RUN >>

selector_vars == << trading_client, broker_universe_cache, broker_cache_key,
                    get_all_symbols, selector_log, selection, selection_info,
                    set_order >>

vars == << pc, analysis_vars, config_vars, main_vars, exec_vars, broker_vars,
           calls, log, now_et, selector_vars >>

NoMetadata == Metadata("", <<>>, 0, 0, <<>>)

Symbols == { "AAPL", "GOOG" }

NoReport == [error |-> "none"]

\* a string is the sequence of its characters; Unset is the None that
\* os.getenv returns for a variable that is not set: it is no string, not
\* the string 'None' either, a character never being empty.  It is only
\* ever compared with the value of an environment variable, never with a
\* list
Unset == << "", "" >>

NoEnv == [ALPACA_API_KEY |-> Unset, APCA_API_KEY_ID |-> Unset,
          ALPACA_SECRET |-> Unset, APCA_API_SECRET_KEY |-> Unset,
          TRADING_SYMBOLS |-> Unset, USE_DYNAMIC_STOCK_SELECTION |-> Unset,
          STOCK_SELECTION_METHOD |-> Unset,
          USE_BROKER_STOCK_UNIVERSE |-> Unset, BROKER_EXCHANGES |-> Unset,
          STOCK_SELECTION_LIMIT |-> Unset, DRY_RUN |-> Unset]

\* Config is not under construction
IdleConfig ==
    /\ env = NoEnv
    /\ config = None

\* nothing of main has run
IdleMain ==
    /\ trading_symbols = <<>>
    /\ idx = 1
    /\ symbols_analyzed = <<>>
    /\ all_signals = <<>>
    /\ trades_executed = <<>>
    /\ daily_report = NoReport
    /\ files = {}

\* execute_trades is not running
IdleExec ==
    /\ caller = "none"
    /\ cur_symbol = ""
    /\ queue = <<>>
    /\ trades = <<>>
    /\ result = Returned(None, <<>>)

\* should_run_today has not run
NoTime == [weekday |-> 0, holiday |-> FALSE, time |-> 0]

NoSelection ==
    [op |-> "none", method |-> "", limit |-> 0, use_cache |-> FALSE,
     use_broker_universe |-> FALSE, exchanges |-> <<>>, broker_stocks |-> <<>>,
     made |-> 0]

\* no selector has been constructed
IdleSelector ==
    /\ trading_client = FALSE
    /\ broker_universe_cache = None
    /\ broker_cache_key = None
    /\ get_all_symbols = None
    /\ selector_log = <<>>
    /\ selection = NoSelection
    /\ selection_info = None
    /\ set_order = <<>>

rest_vars == << config_vars, main_vars, exec_vars, broker_vars, calls, log >>

\* ------------------------------------------------------------------------
\* The analysis functions applied to one series
\* ------------------------------------------------------------------------
InitSignals ==
    /\ now_et = NoTime
    /\ IdleSelector
    /\ pc = "input"
    /\ df \in Frames
    /\ indicators = None
    /\ tally = NoVote
    /\ signals = <<>>
    /\ metadata = NoMetadata
    /\ refetched = None
    /\ IdleConfig
    /\ DRY_RUN = FALSE
    /\ IdleMain
    /\ IdleExec
    /\ buying_power = 0
    /\ positions = [s \in Symbols |-> 0]
    /\ next_order_id = 1
    /\ calls = <<>>
    /\ log = <<>>

CallCalculateTechnicalIndicators ==
    /\ pc = "input"
    /\ indicators' = CalculateTechnicalIndicators(df)
    /\ pc' = "calculated"
    /\ UNCHANGED << now_et, selector_vars, df, tally, signals, metadata, refetched, rest_vars >>

\* the counters generate_signals holds when it decides (zero when it
\* returns before counting)
TallyOf(symbol, fetched) ==
    IF fetched = None \/ fetched.n < MIN_BARS THEN NoVote
    ELSE LET a == CalculateTechnicalIndicators(fetched)
         IN IF a = None THEN NoVote ELSE SignalTally(symbol, a)

\* a direct call of generate_signals(symbol): its one request for the bars
\* of the symbol is made whatever the request returns
CallGenerateSignals ==
    /\ pc = "input"
    /\ \E symbol \in Symbols :
         /\ signals' = GenerateSignals(symbol, df)
         /\ tally' = TallyOf(symbol, df)
         /\ calls' = calls \o << Call("get_stock_bars", symbol, 0) >>
    /\ pc' = "generated"
    /\ UNCHANGED << now_et, selector_vars, df, indicators, metadata, refetched,
                    config_vars, main_vars, exec_vars, broker_vars, log >>

CallGenerateSignalsWithMetadata ==
    /\ pc = "input"
    /\ \E symbol \in Symbols, again \in Refetched(df) :
         LET r == GenerateSignalsWithMetadata(symbol, df, again)
         IN /\ signals' = r[1]
            /\ metadata' = r[2]
            /\ tally' = TallyOf(symbol, df)
            /\ refetched' = again
            /\ calls' = calls \o << Call("get_stock_bars", symbol, 0),
                                    Call("get_stock_bars", symbol, 0) >>
    /\ pc' = "reported"
    /\ UNCHANGED << now_et, selector_vars, df, indicators, config_vars,
                    main_vars, exec_vars, broker_vars, log >>

\* a direct call of analyze_volume(df)
CallAnalyzeVolume ==
    /\ pc = "input"
    /\ result' = Returned(AnalyzeVolume(df), <<>>)
    /\ pc' = "volume"
    /\ UNCHANGED << now_et, selector_vars, analysis_vars, config_vars, main_vars, caller, cur_symbol,
                    queue, trades, broker_vars, calls, log >>

\* a direct call of detect_price_patterns(df)
CallDetectPricePatterns ==
    /\ pc = "input"
    /\ result' = Returned(DetectPricePatterns(df), <<>>)
    /\ pc' = "pattern"
    /\ UNCHANGED << now_et, selector_vars, analysis_vars, config_vars, main_vars, caller, cur_symbol,
                    queue, trades, broker_vars, calls, log >>

NextSignals ==
    \/ CallAnalyzeVolume
    \/ CallDetectPricePatterns
    \/ CallCalculateTechnicalIndicators
    \/ CallGenerateSignals
    \/ CallGenerateSignalsWithMetadata

SpecSignals == InitSignals /\ [][NextSignals]_vars

\* ------------------------------------------------------------------------
\* The broker
\* ------------------------------------------------------------------------
BuyingPowers == { 0, 100, MaxBuyingPower }

Prices == { 0, 7, 50, 250 }

\* held quantities in tenths of a share: a short position, no position,
\* half a share, a long position of whole shares, a long position with a
\* fraction of a share
Quantities == { -20, 0, 5, 10 * MaxPosition, 10 * MaxPosition + 5 }

\* the answers the broker and the market-data client can give to the calls
\* made for one signal on symbol: every call can fail, get_open_position
\* fails when there is no position, and an order is accepted only if the
\* account can pay for it
Answers(symbol, prices) ==
    { [account_ok |-> a, buying_power |-> buying_power,
       quote_ok |-> q, ask_price |-> p,
       submit_ok |-> s, order_id |-> next_order_id,
       position_ok |-> o /\ positions[symbol] # 0,
       qty |-> positions[symbol], qty_text |-> t] :
        a \in BOOLEAN, q \in BOOLEAN, s \in BOOLEAN, o \in BOOLEAN,
        t \in BOOLEAN, p \in prices }

IsTrade(t) == t # None

IsSubmitted(t) == IsTrade(t) /\ t.status = "SUBMITTED"

Affordable(t) == t.action = "SELL" \/ t.shares * t.price <= buying_power

\* the state of the broker after the bot returned value
BrokerAfter(value) ==
    IF IsSubmitted(value)
    THEN /\ next_order_id' = next_order_id + 1
         /\ IF value.action = "BUY"
            THEN /\ buying_power' = buying_power - value.shares * value.price
                 /\ positions' = [positions EXCEPT ![value.symbol] =
                                                      @ + 10 * value.shares]
            ELSE /\ buying_power' = buying_power + value.shares * value.price
                 /\ positions' = [positions EXCEPT ![value.symbol] =
                                                      @ - 10 * value.shares]
    ELSE UNCHANGED broker_vars

\* what the logger records for one executed signal
Outcome(raised, value) ==
    IF raised THEN "Failed"
    ELSE IF value = None THEN "SkippedNoPosition"
    ELSE IF value.status = "DRY_RUN" THEN "DryRunResult"
    ELSE "Submitted"

Logged(symbol, action, outcome) ==
    [symbol |-> symbol, action |-> action, outcome |-> outcome]

\* ------------------------------------------------------------------------
\* execute_trades
\* ------------------------------------------------------------------------
\* one iteration of the loop of execute_trades
ExecuteSignal(prices) ==
    /\ pc = "exec"
    /\ queue # <<>>
    /\ \E b \in Answers(cur_symbol, prices) :
         LET signal == Head(queue)
             e == ExecuteOne(cur_symbol, signal, DRY_RUN, b)
             value == IF e.appended = <<>> THEN None ELSE e.appended[1]
         IN /\ IsSubmitted(value) => Affordable(value)
            /\ trades' = trades \o e.appended
            /\ calls' = calls \o e.calls
            /\ log' = IF signal[1] \in { "BUY", "SELL" }
                      THEN Append(log, Logged(cur_symbol, signal[1],
                                              Outcome(e.failed, value)))
                      ELSE log
            /\ BrokerAfter(value)
    /\ queue' = Tail(queue)
    /\ UNCHANGED << now_et, selector_vars, pc, analysis_vars, config_vars, main_vars, caller,
                    cur_symbol, result >>

\* execute_trades returns its list: main extends trades_executed with it
\* and goes to the next symbol, a direct caller gets it as the result
ReturnTrades ==
    /\ pc = "exec"
    /\ queue = <<>>
    /\ IF caller = "main"
       THEN /\ trades_executed' = trades_executed \o trades
            /\ idx' = idx + 1
            /\ pc' = "loop"
            /\ result' = result
       ELSE /\ result' = Returned(trades, <<>>)
            /\ pc' = "returned"
            /\ UNCHANGED << now_et, selector_vars, trades_executed, idx >>
    /\ UNCHANGED << now_et, selector_vars, analysis_vars, config_vars, trading_symbols,
                    symbols_analyzed, all_signals, daily_report, files,
                    caller, cur_symbol, queue, trades, broker_vars, calls,
                    log >>

\* ------------------------------------------------------------------------
\* The market gate
\* ------------------------------------------------------------------------
MARKET_OPEN_TIME == 570

MARKET_CLOSE_TIME == 960

\* should_run_today(): weekday is now_et.weekday(), holiday tells whether
\* today is a US holiday, clock is the answer of get_clock ("open",
\* "closed" or "fail") and current_time the Eastern time in minutes
ShouldRunToday(weekday, holiday, clock, current_time) ==
    IF weekday >= 5 THEN FALSE
    ELSE IF holiday THEN FALSE
    ELSE IF clock # "fail" THEN clock = "open"
    ELSE MARKET_OPEN_TIME <= current_time /\ current_time <= MARKET_CLOSE_TIME

Weekdays == { 4, 5 }

ClockAnswers == { "open", "closed", "fail" }

Times == { MARKET_OPEN_TIME - 1, MARKET_OPEN_TIME, MARKET_CLOSE_TIME,
           MARKET_CLOSE_TIME + 1 }

\* ------------------------------------------------------------------------
\* Direct calls of the order operations
\* ------------------------------------------------------------------------
SignalTypes == { "BUY", "SELL", "HOLD" }

RECURSIVE SeqsUpTo(_, _)
SeqsUpTo(S, k) ==
    IF k = 0 THEN { <<>> }
    ELSE LET shorter == SeqsUpTo(S, k - 1)
         IN shorter \cup { Append(q, x) : q \in shorter, x \in S }

SignalLists ==
    SeqsUpTo({ << t, << t >> >> : t \in SignalTypes }, MaxSignals)

InitOrders ==
    /\ now_et = NoTime
    /\ IdleSelector
    /\ pc = "idle"
    /\ df = None
    /\ indicators = None
    /\ tally = NoVote
    /\ signals = <<>>
    /\ metadata = NoMetadata
    /\ refetched = None
    /\ IdleConfig
    /\ DRY_RUN \in BOOLEAN
    /\ IdleMain
    /\ IdleExec
    /\ buying_power \in BuyingPowers
    /\ \E q \in Quantities : positions = [s \in Symbols |-> q]
    /\ next_order_id = 1
    /\ calls = <<>>
    /\ log = <<>>

\* a direct call of place_buy_order or place_sell_order
CallPlaceOrder(action) ==
    /\ pc = "idle"
    /\ \E symbol \in Symbols : \E b \in Answers(symbol, Prices) :
         LET r == IF action = "BUY"
                  THEN PlaceBuyOrder(symbol, << action >>, DRY_RUN, b)
                  ELSE PlaceSellOrder(symbol, << action >>, DRY_RUN, b)
         IN /\ IsSubmitted(r.value) => Affordable(r.value)
            /\ result' = r
            /\ calls' = calls \o r.calls
            /\ log' = Append(log, Logged(symbol, action,
                                         Outcome(r.raised, r.value)))
            /\ cur_symbol' = symbol
            /\ BrokerAfter(r.value)
    /\ pc' = "returned"
    /\ UNCHANGED << now_et, selector_vars, analysis_vars, config_vars, main_vars, caller, queue, trades >>

CallPlaceBuyOrder == CallPlaceOrder("BUY")

CallPlaceSellOrder == CallPlaceOrder("SELL")

\* a direct call of execute_trades(symbol, signals)
CallExecuteTrades ==
    /\ pc = "idle"
    /\ \E symbol \in Symbols, sigs \in SignalLists :
         /\ cur_symbol' = symbol
         /\ queue' = sigs
    /\ trades' = <<>>
    /\ caller' = "api"
    /\ pc' = "exec"
    /\ UNCHANGED << now_et, selector_vars, analysis_vars, config_vars, main_vars, result, broker_vars,
                    calls, log >>

\* a direct call of should_run_today()
CallShouldRunToday ==
    /\ pc = "idle"
    /\ \E weekday \in Weekdays, holiday \in BOOLEAN, clock \in ClockAnswers,
          current_time \in Times :
         LET asked == weekday < 5 /\ ~holiday
             c1 == IF asked THEN << Call("get_clock", "", clock) >> ELSE <<>>
         IN /\ now_et' = [weekday |-> weekday, holiday |-> holiday,
                          time |-> current_time]
            /\ result' = Returned(ShouldRunToday(weekday, holiday, clock,
                                                 current_time), c1)
            /\ calls' = calls \o c1
    /\ pc' = "gate"
    /\ UNCHANGED << selector_vars, analysis_vars, config_vars, main_vars,
                    caller, cur_symbol, queue, trades, broker_vars, log >>

NextOrders ==
    \/ CallShouldRunToday
    \/ CallPlaceBuyOrder
    \/ CallPlaceSellOrder
    \/ CallExecuteTrades
    \/ ExecuteSignal(Prices)
    \/ ReturnTrades

SpecOrders == InitOrders /\ [][NextOrders]_vars

\* ------------------------------------------------------------------------
\* Strings
\* ------------------------------------------------------------------------
\* a string is the sequence of its characters
\* the characters of the strings of the model, in the order of their code
\* points
Alphabet ==
    << " ", ",", "-", ".",
       "0", "1", "2", "3", "4", "5", "6", "7", "8", "9",
       "A", "B", "C", "D", "E", "F", "G", "H", "I", "J", "K", "L", "M",
       "N", "O", "P", "Q", "R", "S", "T", "U", "V", "W", "X", "Y", "Z", "_",
       "a", "b", "c", "d", "e", "f", "g", "h", "i", "j", "k", "l", "m",
       "n", "o", "p", "q", "r", "s", "t", "u", "v", "w", "x", "y", "z" >>

\* ord(c), up to a constant
Ord(c) == CHOOSE i \in DOMAIN Alphabet : Alphabet[i] = c

IsDigit(c) == Ord("0") <= Ord(c) /\ Ord(c) <= Ord("9")

\* str.upper()
Upper(s) ==
    [i \in DOMAIN s |->
        IF Ord("a") <= Ord(s[i]) /\ Ord(s[i]) <= Ord("z")
        THEN Alphabet[Ord(s[i]) - Ord("a") + Ord("A")]
        ELSE s[i]]

\* str.lower()
Lower(s) ==
    [i \in DOMAIN s |->
        IF Ord("A") <= Ord(s[i]) /\ Ord(s[i]) <= Ord("Z")
        THEN Alphabet[Ord(s[i]) - Ord("A") + Ord("a")]
        ELSE s[i]]

\* a < b on strings
RECURSIVE StrLt(_, _)
StrLt(a, b) ==
    IF b = <<>> THEN FALSE
    ELSE IF a = <<>> THEN TRUE
    ELSE IF a[1] = b[1] THEN StrLt(Tail(a), Tail(b))
    ELSE Ord(a[1]) < Ord(b[1])

\* s.replace(old, '') for a string old that is not empty
RECURSIVE Remove(_, _)
Remove(s, old) ==
    IF Len(s) < Len(old) THEN s
    ELSE IF SubSeq(s, 1, Len(old)) = old
    THEN Remove(SubSeq(s, Len(old) + 1, Len(s)), old)
    ELSE << s[1] >> \o Remove(Tail(s), old)

\* ------------------------------------------------------------------------
\* Stock selector: the broker universe
\* ------------------------------------------------------------------------
\* the class attribute STOCK_UNIVERSE, a dict in insertion order
STOCK_UNIVERSE ==
    << [sector |-> "Technology",
        stocks |-> << "AAPL", "MSFT", "GOOGL", "META", "NVDA", "AMD", "INTC",
                      "CSCO", "ORCL", "CRM" >>],
       [sector |-> "Financial",
        stocks |-> << "JPM", "BAC", "WFC", "GS", "MS", "C", "BLK", "SCHW",
                      "AXP", "USB" >>],
       [sector |-> "Healthcare",
        stocks |-> << "JNJ", "UNH", "PFE", "ABBV", "TMO", "MRK", "ABT", "DHR",
                      "BMY", "LLY" >>],
       [sector |-> "Consumer",
        stocks |-> << "AMZN", "TSLA", "WMT", "HD", "NKE", "MCD", "SBUX", "TGT",
                      "LOW", "CVS" >>],
       [sector |-> "Energy",
        stocks |-> << "XOM", "CVX", "COP", "SLB", "EOG", "MPC", "PSX", "VLO",
                      "OXY", "HAL" >>],
       [sector |-> "Industrial",
        stocks |-> << "BA", "CAT", "GE", "HON", "UPS", "RTX", "LMT", "MMM",
                      "DE", "EMR" >>],
       [sector |-> "Communication",
        stocks |-> << "DIS", "CMCSA", "NFLX", "T", "VZ", "TMUS", "CHTR", "EA",
                      "ATVI", "TTWO" >>],
       [sector |-> "Materials",
        stocks |-> << "LIN", "APD", "ECL", "SHW", "DD", "NEM", "FCX", "NUE",
                      "VMC", "MLM" >>] >>

\* list.extend over a list of lists
RECURSIVE Flatten(_)
Flatten(lists) ==
    IF lists = <<>> THEN <<>> ELSE Head(lists) \o Flatten(Tail(lists))

Elements(s) == { s[i] : i \in DOMAIN s }

\* list(set(xs)): the distinct elements of xs, in the order the set happens
\* to iterate in; order lists every element of xs once
ListOfSet(xs, order) ==
    LET distinct == Elements(xs)
    IN SelectSeq(order, LAMBDA x : x \in distinct)

\* all_symbols of get_all_symbols(), before the duplicates are removed
UniverseSymbols ==
    Flatten([i \in DOMAIN STOCK_UNIVERSE |-> STOCK_UNIVERSE[i].stocks])

\* a list of symbols: known holds, in the order of the list, the symbols
\* whose order is part of the state, others the symbols of the list whose
\* place in it is not
Listing(known, others) == [known |-> known, others |-> others]

\* a list in the order of xs
Listed(xs) == Listing(xs, {})

\* the symbols of a list
ListedSymbols(symbols) == Elements(symbols.known) \cup symbols.others

\* the elements of a set one after the other, in an order of no account
RECURSIVE SeqOfSet(_)
SeqOfSet(S) ==
    IF S = {} THEN << >>
    ELSE LET x == CHOOSE y \in S : TRUE
         IN << x >> \o SeqOfSet(S \ { x })

\* the symbols of a list that a loop keeps, kept holding the symbols that
\* pass its tests, before it sorts them by their keys: those whose order
\* the list keeps come in that order; each of the others has a key no other
\* symbol has, so that the sort puts it in the same place wherever it stood
KeptSymbols(symbols, kept) ==
    SelectSeq(symbols.known, LAMBDA symbol : symbol \in kept)
    \o SeqOfSet(symbols.others \cap kept)

\* the method get_all_symbols() of the class: list(set(all_symbols)) holds
\* every symbol of the universe once, in the order in which the set
\* iterates, which follows the hashes of the strings and so differs from
\* process to process; order is the order of the symbols whose order the
\* state keeps
GetAllSymbols(order) ==
    Listing(order, Elements(UniverseSymbols) \ Elements(order))

\* s[:k]
SliceTo(s, k) ==
    LET n == Len(s)
        m == IF k >= 0 THEN (IF k < n THEN k ELSE n)
             ELSE (IF n + k > 0 THEN n + k ELSE 0)
    IN SubSeq(s, 1, m)

\* s[-k:]
SliceLast(s, k) ==
    LET n == Len(s)
        from == IF k > 0 THEN (IF k < n THEN n - k + 1 ELSE 1)
                ELSE (IF -k < n THEN 1 - k ELSE n + 1)
    IN SubSeq(s, from, n)

Reverse(s) == [i \in 1..Len(s) |-> s[Len(s) + 1 - i]]

\* sorted(exchanges) puts a name behind the names that are not greater and
\* came before it
RECURSIVE InsertName(_, _)
InsertName(sorted, name) ==
    IF sorted = <<>> THEN << name >>
    ELSE IF StrLt(name, Head(sorted)) THEN << name >> \o sorted
    ELSE << Head(sorted) >> \o InsertName(Tail(sorted), name)

\* sorted(exchanges), the names being strings
RECURSIVE Sorted(_)
Sorted(exchanges) ==
    IF exchanges = <<>> THEN <<>>
    ELSE InsertName(Sorted(SubSeq(exchanges, 1, Len(exchanges) - 1)),
                    exchanges[Len(exchanges)])

\* variant: the key does not depend on the filter
CacheKey_IgnoresFilter(exchanges) == None

\* cache_key = tuple(sorted(exchanges)) if exchanges else None; a filter of
\* None and an empty filter are both the empty sequence
CacheKey(exchanges) ==
    IF exchanges = <<>> THEN None ELSE [tuple |-> Sorted(exchanges)]

\* a value of _broker_universe_cache other than None
Cached(list) == [list |-> list]

\* 'AssetExchange.'
ASSET_EXCHANGE_PREFIX ==
    << "A", "s", "s", "e", "t", "E", "x", "c", "h", "a", "n", "g", "e", "." >>

\* str(asset.exchange).replace('AssetExchange.', ''), asset.exchange being
\* kept as the string str() gives
AssetExchangeName(exchange) == Remove(exchange, ASSET_EXCHANGE_PREFIX)

\* the filter loop over the assets the broker returned
RECURSIVE TradableSymbols(_, _)
TradableSymbols(assets, exchanges) ==
    IF assets = <<>> THEN <<>>
    ELSE LET asset == Head(assets)
             rest == TradableSymbols(Tail(assets), exchanges)
         IN IF asset.tradable /\ asset.fractionable /\ asset.shortable
            THEN IF exchanges # <<>>
                 THEN IF AssetExchangeName(asset.exchange)
                             \in Elements(exchanges)
                      THEN << asset.symbol >> \o rest
                      ELSE rest
                 ELSE << asset.symbol >> \o rest
            ELSE rest

\* one message of the selector's logger
LogLine(level, msg, arg) == [level |-> level, msg |-> msg, arg |-> arg]

\* what a call of the selector did: the value it returned, the external
\* calls it made, the messages it logged and the cache it left
Fetched(value, cs, logged, cache, key) ==
    [value |-> value, calls |-> cs, logged |-> logged, cache |-> cache,
     key |-> key]

\* variant: the cache is never read
GetTradableStocksFromBroker_NoCacheRead(client, cache, key, use_cache, exchanges, answer) ==
    IF ~client
    THEN Fetched(<<>>, <<>>,
                 << LogLine("warning", "Trading client not available",
                            <<>>) >>, cache, key)
    ELSE LET cache_key == CacheKey(exchanges)
             asked == << Call("get_all_assets", "", answer) >>
             retrieving == LogLine("info", "Retrieving tradable stocks",
                                   exchanges)
         IN IF answer.raised
            THEN Fetched(<<>>, asked,
                         << retrieving,
                            LogLine("error", "Error retrieving stocks",
                                    <<>>) >>, cache, key)
            ELSE LET tradable_symbols ==
                         TradableSymbols(answer.assets, exchanges)
                 IN Fetched(tradable_symbols, asked,
                            << retrieving,
                               LogLine("info", "Retrieved tradable stocks",
                                       << Len(tradable_symbols) >>) >>,
                            Cached(tradable_symbols), cache_key)

\* get_tradable_stocks_from_broker(use_cache, exchanges) on a selector with
\* the given trading client and cache, answer being what get_all_assets
\* answers when it is called
GetTradableStocksFromBroker(client, cache, key, use_cache, exchanges, answer) ==
    IF ~client
    THEN Fetched(<<>>, <<>>,
                 << LogLine("warning", "Trading client not available",
                            <<>>) >>, cache, key)
    ELSE LET cache_key == CacheKey(exchanges)
             asked == << Call("get_all_assets", "", answer) >>
             retrieving == LogLine("info", "Retrieving tradable stocks",
                                   exchanges)
         IN IF use_cache /\ cache # None /\ key = cache_key
            THEN Fetched(cache.list, <<>>, <<>>, cache, key)
            ELSE IF answer.raised
            THEN Fetched(<<>>, asked,
                         << retrieving,
                            LogLine("error", "Error retrieving stocks",
                                    <<>>) >>, cache, key)
            ELSE LET tradable_symbols ==
                         TradableSymbols(answer.assets, exchanges)
                 IN Fetched(tradable_symbols, asked,
                            << retrieving,
                               LogLine("info", "Retrieved tradable stocks",
                                       << Len(tradable_symbols) >>) >>,
                            Cached(tradable_symbols), cache_key)

\* the assets the broker lists
Asset(symbol, tradable, fractionable, shortable, exchange) ==
    [symbol |-> symbol, tradable |-> tradable, fractionable |-> fractionable,
     shortable |-> shortable, exchange |-> exchange]

\* str() of a member of the enumeration AssetExchange
AssetExchange(name) == ASSET_EXCHANGE_PREFIX \o name

\* exchange names
NYSE == << "N", "Y", "S", "E" >>

NASDAQ == << "N", "A", "S", "D", "A", "Q" >>

ARCA == << "A", "R", "C", "A" >>

OTC == << "O", "T", "C" >>

AssetsA ==
    << Asset("AAPL", TRUE, TRUE, TRUE, AssetExchange(NASDAQ)),
       Asset("SPY", TRUE, TRUE, TRUE, AssetExchange(ARCA)),
       Asset("GME", TRUE, TRUE, FALSE, AssetExchange(NYSE)),
       Asset("JPM", TRUE, TRUE, TRUE, NYSE) >>

AssetsB ==
    << Asset("MSFT", TRUE, TRUE, TRUE, AssetExchange(NASDAQ)),
       Asset("SPY", TRUE, TRUE, TRUE, AssetExchange(ARCA)) >>

AssetAnswers ==
    { [raised |-> TRUE, assets |-> <<>>],
      [raised |-> FALSE, assets |-> AssetsA],
      [raised |-> FALSE, assets |-> AssetsB] }

ExchangeFilters ==
    { <<>>, << NYSE >>, << NASDAQ, NYSE >>, << NYSE, NASDAQ >>, << OTC >> }

\* a selector has been constructed and nothing has been called on it
NewSelector ==
    /\ trading_client \in BOOLEAN
    /\ broker_universe_cache = None
    /\ broker_cache_key = None
    /\ get_all_symbols = None
    /\ selector_log = <<>>
    /\ selection = NoSelection
    /\ selection_info = None

InitCache ==
    /\ pc = "selector"
    /\ now_et = NoTime
    /\ NewSelector
    /\ set_order = << >>
    /\ df = None
    /\ indicators = None
    /\ tally = NoVote
    /\ signals = <<>>
    /\ metadata = NoMetadata
    /\ refetched = None
    /\ IdleConfig
    /\ DRY_RUN = FALSE
    /\ IdleMain
    /\ IdleExec
    /\ buying_power = 0
    /\ positions = [s \in Symbols |-> 0]
    /\ next_order_id = 1
    /\ calls = <<>>
    /\ log = <<>>

\* a call of get_tradable_stocks_from_broker(use_cache, exchanges)
CallGetTradableStocksFromBroker ==
    /\ pc \in { "selector", "fetched" }
    /\ Len(selector_log) < 2 * MaxBrokerQueries
    /\ \E use_cache \in BOOLEAN, exchanges \in ExchangeFilters,
          answer \in AssetAnswers :
         LET r == GetTradableStocksFromBroker(
                      trading_client, broker_universe_cache, broker_cache_key,
                      use_cache, exchanges, answer)
         IN /\ result' = Returned(r.value, r.calls)
            /\ calls' = calls \o r.calls
            /\ selector_log' = selector_log \o r.logged
            /\ broker_universe_cache' = r.cache
            /\ broker_cache_key' = r.key
            /\ selection' = [NoSelection EXCEPT
                                !.op = "get_tradable_stocks_from_broker",
                                !.use_cache = use_cache,
                                !.exchanges = exchanges]
    /\ pc' = "fetched"
    /\ UNCHANGED << now_et, trading_client, get_all_symbols, set_order,
                    selection_info, analysis_vars, config_vars, main_vars,
                    caller, cur_symbol, queue, trades, broker_vars, log >>

NextCache == CallGetTradableStocksFromBroker

SpecCache == InitCache /\ [][NextCache]_vars

\* ------------------------------------------------------------------------
\* Stock selector: the selection methods
\* ------------------------------------------------------------------------
DEFAULT_STOCKS_PER_SECTOR == 2

DEFAULT_MIN_VOLUME == 5000000

DEFAULT_PERIOD_DAYS == 1

\* what a selection did: whether it raised, the value it returned, the
\* external calls it made and the messages it logged
Selected(raised, value, cs, logged) ==
    [raised |-> raised, value |-> value, calls |-> cs, logged |-> logged]

\* STOCK_UNIVERSE.keys()
SectorNames == [i \in DOMAIN STOCK_UNIVERSE |-> STOCK_UNIVERSE[i].sector]

\* STOCK_UNIVERSE[sector]
SectorStocks(sector) ==
    LET i == CHOOSE j \in DOMAIN STOCK_UNIVERSE :
                 STOCK_UNIVERSE[j].sector = sector
    IN STOCK_UNIVERSE[i].stocks

\* get_diversified_stocks(stocks_per_sector, sectors), sectors being None or
\* a list of names: the slice of a sector raises when stocks_per_sector is
\* no integer
GetDiversifiedStocks(stocks_per_sector, sectors) ==
    LET names == IF sectors = None THEN SectorNames ELSE sectors
        known == SelectSeq(names, LAMBDA n : n \in Elements(SectorNames))
        picked == [i \in DOMAIN known |->
                      SliceTo(SectorStocks(known[i]), stocks_per_sector)]
        selecting == LogLine("info", "Selecting diversified stocks",
                             << stocks_per_sector >>)
    IN IF stocks_per_sector = NaN /\ known # <<>>
       THEN Selected(TRUE, <<>>, <<>>, << selecting >>)
       ELSE Selected(FALSE, Flatten(picked), <<>>,
                     << selecting >>
                     \o [i \in DOMAIN known |->
                            LogLine("debug", "Selected from sector",
                                    << known[i], picked[i] >>)]
                     \o << LogLine("info", "Selected diversified stocks",
                                   << Len(Flatten(picked)), Len(names) >>) >>)

\* a float kept as the fraction num / den, den > 0
Frac(num, den) == [num |-> num, den |-> den]

FracGt(a, b) == a.num * b.den > b.num * a.den

\* list.sort(key, reverse = True), a stable sort: an entry goes behind the
\* entries that are not smaller and came before it
RECURSIVE InsertByKey(_, _)
InsertByKey(sorted, e) ==
    IF sorted = <<>> THEN << e >>
    ELSE IF FracGt(e.key, Head(sorted).key) THEN << e >> \o sorted
    ELSE << Head(sorted) >> \o InsertByKey(Tail(sorted), e)

RECURSIVE SortByKeyDesc(_)
SortByKeyDesc(entries) ==
    IF entries = <<>> THEN <<>>
    ELSE InsertByKey(SortByKeyDesc(SubSeq(entries, 1, Len(entries) - 1)),
                     entries[Len(entries)])

SymbolsOf(entries) == [i \in DOMAIN entries |-> entries[i].symbol]

\* the data client: market.raises holds the symbols whose request raises,
\* market.bars the bars of the symbols bars.data holds, oldest first.  A
\* loop over symbols requests the bars of every symbol, in the order of the
\* list; the requests of a loop over a list made from a set, whose order is
\* not fixed, are one entry that names no symbol and holds the symbols
\* requested
BarsRequests(symbols) ==
    IF symbols.others = {}
    THEN [i \in DOMAIN symbols.known |->
             Call("get_stock_bars", symbols.known[i], 0)]
    ELSE << Call("get_stock_bars", "", ListedSymbols(symbols)) >>

\* the messages of a loop over symbols about the symbols that raised, one
\* for each of them, in the order of the list; those of a loop over a list
\* made from a set are one entry that holds the symbols that raised
CouldNot(msg, symbols, raising) ==
    IF symbols.others = {}
    THEN LET failing == SelectSeq(symbols.known, LAMBDA symbol :
                            symbol \in raising)
         IN [i \in DOMAIN failing |->
                LogLine("debug", msg, << failing[i] >>)]
    ELSE LET failing == ListedSymbols(symbols) \cap raising
         IN IF failing = {} THEN << >>
            ELSE << LogLine("debug", msg, failing) >>

\* avg_volume = sum(volumes) / len(volumes) if volumes else 0
AvgVolume(bars) ==
    LET volumes == [i \in DOMAIN bars |-> bars[i].volume]
    IN IF volumes # <<>> THEN Frac(SumSeq(volumes), Len(volumes))
       ELSE Frac(0, 1)

\* the loop of get_high_volume_stocks over the symbols: a symbol whose
\* request raises or that bars.data does not hold is passed over
HighVolumeEntries(symbols, min_volume, market) ==
    LET kept == KeptSymbols(symbols, { symbol \in ListedSymbols(symbols) :
                    /\ symbol \notin market.raises
                    /\ symbol \in DOMAIN market.bars
                    /\ ~FracGt(Frac(min_volume, 1),
                               AvgVolume(market.bars[symbol])) })
    IN [i \in DOMAIN kept |->
           [symbol |-> kept[i], key |-> AvgVolume(market.bars[kept[i]])]]

\* get_high_volume_stocks(min_volume, limit), symbols being what
\* get_all_symbols() returns; a limit that is no integer raises in the
\* slice, inside the try
GetHighVolumeStocks(symbols, min_volume, limit, market) ==
    LET selecting == << LogLine("info", "Selecting high volume stocks",
                                << min_volume >>) >>
                     \o CouldNot("Could not fetch volume", symbols,
                                 market.raises)
        selected == SymbolsOf(SliceTo(SortByKeyDesc(
                        HighVolumeEntries(symbols, min_volume, market)),
                        limit))
    IN IF limit = NaN
       THEN Selected(FALSE, <<>>, BarsRequests(symbols),
                     selecting
                     \o << LogLine("error",
                                   "Error selecting high volume stocks",
                                   <<>>) >>)
       ELSE Selected(FALSE, selected, BarsRequests(symbols),
                     selecting
                     \o << LogLine("info", "Selected high volume stocks",
                                   << Len(selected), selected >>) >>)

\* the position, counted from 1, of bar_list[-period_days - 1], or 0 when
\* the index is out of range
StartPosition(bar_list, period_days) ==
    LET index == -period_days - 1
        position == IF index < 0 THEN Len(bar_list) + index + 1
                    ELSE index + 1
    IN IF 1 <= position /\ position <= Len(bar_list) THEN position ELSE 0

\* start_price of get_top_movers
StartPrice(bar_list, period_days) ==
    bar_list[StartPosition(bar_list, period_days)].close

\* the symbols whose request or whose bar_list[-period_days - 1] raises
MoverRaises(symbol, period_days, market) ==
    \/ symbol \in market.raises
    \/ /\ symbol \in DOMAIN market.bars
       /\ Len(market.bars[symbol]) > period_days
       /\ StartPosition(market.bars[symbol], period_days) = 0

\* the loop of get_top_movers over the symbols
Movers(symbols, period_days, market) ==
    LET kept == KeptSymbols(symbols, { symbol \in ListedSymbols(symbols) :
                    /\ ~MoverRaises(symbol, period_days, market)
                    /\ symbol \in DOMAIN market.bars
                    /\ Len(market.bars[symbol]) > period_days
                    /\ StartPrice(market.bars[symbol], period_days) > 0 })
    IN [i \in DOMAIN kept |->
           LET bar_list == market.bars[kept[i]]
               start_price == StartPrice(bar_list, period_days)
               end_price == bar_list[Len(bar_list)].close
           IN [symbol |-> kept[i],
               key |-> Frac((end_price - start_price) * 100, start_price)]]

\* d.get(key, default) on a dict kept as a function of its keys
DictGet(d, key, default) == IF key \in DOMAIN d THEN d[key] ELSE default

\* get_top_movers(period_days, limit, direction): the dict returned holds
\* the keys the direction asks for, and both keys after an exception
GetTopMovers(symbols, period_days, limit, direction, market) ==
    LET finding == << LogLine("info", "Finding top movers",
                              << period_days, direction >>) >>
                   \o CouldNot("Could not analyze", symbols,
                               { symbol \in ListedSymbols(symbols) :
                                   MoverRaises(symbol, period_days,
                                               market) })
        movers == SortByKeyDesc(Movers(symbols, period_days, market))
        gainers == SymbolsOf(SliceTo(movers, limit))
        losers == SymbolsOf(Reverse(SliceLast(movers, limit)))
        keys == (IF direction \in { "gainers", "both" }
                 THEN { "gainers" } ELSE {})
                \cup (IF direction \in { "losers", "both" }
                      THEN { "losers" } ELSE {})
    IN IF limit = NaN /\ keys # {}
       THEN Selected(FALSE, [gainers |-> <<>>, losers |-> <<>>],
                     BarsRequests(symbols),
                     finding
                     \o << LogLine("error", "Error finding top movers",
                                   <<>>) >>)
       ELSE Selected(FALSE,
                     [k \in keys |-> IF k = "gainers" THEN gainers
                                     ELSE losers],
                     BarsRequests(symbols),
                     finding
                     \o (IF "gainers" \in keys
                         THEN << LogLine("info", "Top gainers",
                                         << Len(gainers), gainers >>) >>
                         ELSE <<>>)
                     \o (IF "losers" \in keys
                         THEN << LogLine("info", "Top losers",
                                         << Len(losers), losers >>) >>
                         ELSE <<>>))

\* diversified + high_volume of the method 'mixed', before the duplicates
\* are removed, diversified and high_volume being what the two methods
\* returned
MixedStocks(diversified, high_volume, limit) ==
    SliceTo(diversified, limit \div 2) \o high_volume

\* the end of _select_stocks_internal, r being what the branch of the
\* method did: stocks[:limit] raises when the limit is no integer
LimitStocks(r, limit) ==
    IF r.raised \/ limit = NaN THEN Selected(TRUE, <<>>, r.calls, r.logged)
    ELSE LET stocks == SliceTo(r.value, limit)
         IN Selected(FALSE, stocks, r.calls,
                     r.logged
                     \o << LogLine("info", "Selected stocks",
                                   << Len(stocks), stocks >>) >>)

\* _select_stocks_internal(method, limit) with no keyword argument, symbols
\* being what get_all_symbols() returns during the call and mixed_order the
\* order in which the set of the method 'mixed' iterates; under 'mixed' a
\* limit that is no integer raises after get_diversified_stocks returned
SelectStocksInternal(method, limit, symbols, market, mixed_order) ==
    LimitStocks(
        CASE method = "diversified" ->
                 GetDiversifiedStocks(DEFAULT_STOCKS_PER_SECTOR, None)
          [] method = "high_volume" ->
                 GetHighVolumeStocks(symbols, DEFAULT_MIN_VOLUME, limit,
                                     market)
          [] method = "top_gainers" ->
                 LET movers == GetTopMovers(symbols, DEFAULT_PERIOD_DAYS,
                                            limit, "gainers", market)
                 IN Selected(FALSE, DictGet(movers.value, "gainers", <<>>),
                             movers.calls, movers.logged)
          [] method = "top_losers" ->
                 LET movers == GetTopMovers(symbols, DEFAULT_PERIOD_DAYS,
                                            limit, "losers", market)
                 IN Selected(FALSE, DictGet(movers.value, "losers", <<>>),
                             movers.calls, movers.logged)
          [] method = "mixed" ->
                 LET diversified == GetDiversifiedStocks(1, None)
                     high_volume ==
                         GetHighVolumeStocks(symbols, DEFAULT_MIN_VOLUME,
                                             limit \div 2, market)
                 IN IF limit = NaN
                    THEN Selected(TRUE, <<>>, <<>>, diversified.logged)
                    ELSE Selected(FALSE,
                             SliceTo(ListOfSet(
                                 MixedStocks(diversified.value,
                                             high_volume.value, limit),
                                 mixed_order), limit),
                             high_volume.calls,
                             diversified.logged \o high_volume.logged)
          [] OTHER ->
                 LET diversified ==
                         GetDiversifiedStocks(DEFAULT_STOCKS_PER_SECTOR, None)
                 IN Selected(FALSE, diversified.value, <<>>,
                        << LogLine("warning", "Unknown selection method",
                                   << method >>) >>
                        \o diversified.logged),
        limit)

\* get_all_symbols() under the instance attribute attr
AllSymbols(attr, order) ==
    IF attr \in { None, [original |-> TRUE] } THEN GetAllSymbols(order)
    ELSE Listed(attr.returns)

\* what select_stocks did: the outcome, the messages logged, the cache and
\* the instance attribute it left, and its local broker_stocks
Selection(r, logged, g, attr, broker_stocks) ==
    [raised |-> r.raised, value |-> r.value, calls |-> g.calls \o r.calls,
     logged |-> logged \o g.logged \o r.logged, cache |-> g.cache,
     key |-> g.key, get_all_symbols |-> attr, broker_stocks |-> broker_stocks]

\* the list get_all_symbols() returns during the call of
\* _select_stocks_internal that select_stocks makes, g being what
\* get_tradable_stocks_from_broker did
SymbolsSelectedFrom(g, attr, use_broker_universe, order) ==
    IF use_broker_universe /\ g.value # <<>> THEN Listed(g.value)
    ELSE AllSymbols(attr, order)

\* select_stocks after its messages, logged, g being what
\* get_tradable_stocks_from_broker does when it is called: the broker is
\* asked under 'broker_all' and under use_broker_universe only, and the
\* instance attribute is assigned when the broker returned stocks
SelectStocksFrom(g, cache, key, attr, method, limit, use_broker_universe, logged, market, order, mixed_order) ==
    IF method = "broker_all"
    THEN Selection(IF g.value = <<>> THEN Selected(FALSE, <<>>, <<>>, <<>>)
                   ELSE IF limit = NaN THEN Selected(TRUE, <<>>, <<>>, <<>>)
                   ELSE Selected(FALSE, SliceTo(g.value, limit), <<>>, <<>>),
                   logged, g, attr, g.value)
    ELSE Selection(SelectStocksInternal(
                       method, limit,
                       SymbolsSelectedFrom(g, attr, use_broker_universe,
                                           order),
                       market, mixed_order),
                   logged,
                   IF use_broker_universe THEN g
                   ELSE Fetched(<<>>, <<>>, <<>>, cache, key),
                   IF use_broker_universe /\ g.value # <<>> /\ attr = None
                   THEN [original |-> TRUE] ELSE attr,
                   IF use_broker_universe THEN g.value ELSE <<>>)

\* select_stocks(method, limit, use_broker_universe, broker_exchanges) with
\* no further keyword argument, on a selector with the given trading
\* client, cache and instance attribute get_all_symbols
SelectStocks(client, cache, key, attr, method, limit, use_broker_universe, broker_exchanges, answer, market, order, mixed_order) ==
    SelectStocksFrom(
        GetTradableStocksFromBroker(client, cache, key, TRUE,
                                    broker_exchanges, answer),
        cache, key, attr, method, limit, use_broker_universe,
        << LogLine("info", "Selecting stocks using method",
                   << method, use_broker_universe >>) >>
        \o (IF broker_exchanges # <<>>
            THEN << LogLine("info", "Filtering to exchanges",
                            broker_exchanges) >>
            ELSE <<>>),
        market, order, mixed_order)

\* get_selection_info(symbols): sector_distribution is a dict in insertion
\* order, kept as a sequence of << sector, count >>
GetSelectionInfo(symbols) ==
    LET Count(i) == Len(SelectSeq(symbols, LAMBDA s :
                            s \in Elements(STOCK_UNIVERSE[i].stocks)))
        counted == SelectSeq([i \in DOMAIN STOCK_UNIVERSE |-> i],
                             LAMBDA i : Count(i) > 0)
        sector_counts == [k \in DOMAIN counted |->
                             << STOCK_UNIVERSE[counted[k]].sector,
                                Count(counted[k]) >>]
    IN [total_stocks |-> Len(symbols),
        sectors_represented |-> Len(sector_counts),
        sector_distribution |-> sector_counts,
        symbols |-> symbols]

\* every order in which a set can iterate
RECURSIVE Orderings(_)
Orderings(S) ==
    IF S = {} THEN { <<>> }
    ELSE UNION { { << x >> \o o : o \in Orderings(S \ { x }) } : x \in S }

Bar(volume, close) == [volume |-> volume, close |-> close]

MarketOpen ==
    [raises |-> { "GOOGL" },
     bars |-> [s \in { "AAPL", "MSFT", "INTC", "JPM", "SPY", "XOM" } |->
                 CASE s = "AAPL" -> << Bar(6000000, 100), Bar(8000000, 110) >>
                   [] s = "MSFT" -> << Bar(9000000, 200), Bar(9000000, 190) >>
                   [] s = "INTC" -> << Bar(7000000, 30) >>
                   [] s = "JPM" -> << Bar(4000000, 50), Bar(4000000, 51) >>
                   [] s = "SPY" -> << Bar(20000000, 400), Bar(20000000, 404) >>
                   [] s = "XOM" -> <<>>]]

MarketOutage ==
    [raises |-> Elements(UniverseSymbols) \cup { "SPY", "GME" },
     bars |-> [s \in {} |-> <<>>]]

Markets == { MarketOpen, MarketOutage }

Methods ==
    { "diversified", "high_volume", "top_gainers", "top_losers", "mixed",
      "broker_all", "momentum" }

Limits == { 1, 4, NaN }

SelectionFilters == { <<>>, << NYSE >> }

\* the inputs a selection reads: the broker is asked under broker_all and
\* use_broker_universe only, the data client by the methods that rank by
\* volume or by price change
AnswersRead(method, use_broker_universe) ==
    IF method = "broker_all" \/ use_broker_universe THEN AssetAnswers
    ELSE { [raised |-> TRUE, assets |-> <<>>] }

MarketsRead(method) ==
    IF method \in { "high_volume", "top_gainers", "top_losers", "mixed" }
    THEN Markets
    ELSE { MarketOutage }

PeriodDays == { DEFAULT_PERIOD_DAYS, 2 }

\* two entries of a loop have the same key
SameKey(a, b) == ~FracGt(a.key, b.key) /\ ~FracGt(b.key, a.key)

\* two symbols get the same key in one of the markets: the same average
\* volume from get_high_volume_stocks or the same price change from
\* get_top_movers
CanTie(a, b) ==
    \E market \in Markets :
       \/ \E r \in { HighVolumeEntries(Listed(<< a, b >>), 0, market) } :
             Len(r) = 2 /\ SameKey(r[1], r[2])
       \/ \E period_days \in PeriodDays :
          \E r \in { Movers(Listed(<< a, b >>), period_days, market) } :
             Len(r) = 2 /\ SameKey(r[1], r[2])

\* the symbols of the universe that get the key of another symbol: sort()
\* is stable and leaves such symbols in the order of the list, so that
\* what a loop over get_all_symbols() returns depends on the order of the
\* set through the order of these symbols, and of no other
TiedSymbols ==
    { a \in Elements(UniverseSymbols) :
        \E b \in Elements(UniverseSymbols) \ { a } : CanTie(a, b) }

\* the orders in which the set of get_all_symbols() can iterate: every one
SetOrders == Orderings(TiedSymbols)

\* whether _select_stocks_internal calls get_all_symbols(): the methods
\* that rank by volume or by price change do, 'mixed' after its slice of
\* the diversified stocks
ReadsSymbols(method, limit) ==
    \/ method \in { "high_volume", "top_gainers", "top_losers" }
    \/ method = "mixed" /\ limit # NaN

\* whether a call of select_stocks builds the set of get_all_symbols(), g
\* being what get_tradable_stocks_from_broker did: the method of the class
\* is called unless the stocks of the broker stand in for it
BuildsSet(g, attr, method, limit, use_broker_universe) ==
    /\ ReadsSymbols(method, limit)
    /\ SymbolsSelectedFrom(g, attr, use_broker_universe, << >>).others # {}

\* the order of the set a call finds, shown being the order the process
\* has shown so far: a set that is built iterates as it did before, and in
\* any order when it is built for the first time
OrdersRead(shown, built) ==
    IF built /\ shown = << >> THEN SetOrders ELSE { shown }

\* the orders in which the set of the method 'mixed' can iterate
MixedOrders(method, limit, symbols, market) ==
    IF method = "mixed" /\ limit # NaN
    THEN Orderings(Elements(MixedStocks(
             GetDiversifiedStocks(1, None).value,
             GetHighVolumeStocks(symbols, DEFAULT_MIN_VOLUME, limit \div 2,
                                 market).value,
             limit)))
    ELSE { <<>> }

\* how many calls of the selector have been made
SelectionsMade == selection.made

InitSelector ==
    /\ pc = "selector"
    /\ now_et = NoTime
    /\ NewSelector
    /\ set_order = << >>
    /\ df = None
    /\ indicators = None
    /\ tally = NoVote
    /\ signals = <<>>
    /\ metadata = NoMetadata
    /\ refetched = None
    /\ IdleConfig
    /\ DRY_RUN = FALSE
    /\ IdleMain
    /\ IdleExec
    /\ buying_power = 0
    /\ positions = [s \in Symbols |-> 0]
    /\ next_order_id = 1
    /\ calls = <<>>
    /\ log = <<>>

\* the selector after a call of select_stocks, r being what the call did
StocksSelected(r, method, limit, use_broker_universe, broker_exchanges) ==
    /\ calls' = calls \o r.calls
    /\ selector_log' = selector_log \o r.logged
    /\ broker_universe_cache' = r.cache
    /\ broker_cache_key' = r.key
    /\ get_all_symbols' = r.get_all_symbols
    /\ selection' = [op |-> "select_stocks", method |-> method,
                     limit |-> limit, use_cache |-> TRUE,
                     use_broker_universe |-> use_broker_universe,
                     exchanges |-> broker_exchanges,
                     broker_stocks |-> r.broker_stocks,
                     made |-> selection.made + 1]

\* a call of select_stocks(method, limit, use_broker_universe,
\* broker_exchanges)
CallSelectStocks ==
    /\ pc \in { "selector", "selected", "called" }
    /\ SelectionsMade < MaxSelections
    /\ \E method \in Methods, limit \in Limits,
          use_broker_universe \in BOOLEAN,
          broker_exchanges \in SelectionFilters :
       \E answer \in AnswersRead(method, use_broker_universe),
          market \in MarketsRead(method) :
       \E g \in { GetTradableStocksFromBroker(
                      trading_client, broker_universe_cache, broker_cache_key,
                      TRUE, broker_exchanges, answer) } :
       \E order \in OrdersRead(set_order,
                                BuildsSet(g, get_all_symbols, method, limit,
                                          use_broker_universe)) :
       \E mixed_order \in MixedOrders(method, limit,
              SymbolsSelectedFrom(g, get_all_symbols, use_broker_universe,
                                  order),
              market) :
       \E r \in { SelectStocks(trading_client, broker_universe_cache,
                               broker_cache_key, get_all_symbols, method,
                               limit, use_broker_universe, broker_exchanges,
                               answer, market, order, mixed_order) } :
         /\ result' = IF r.raised THEN Raised(r.calls)
                      ELSE Returned(r.value, r.calls)
         /\ StocksSelected(r, method, limit, use_broker_universe,
                           broker_exchanges)
         /\ set_order' = order
    /\ pc' = "selected"
    /\ UNCHANGED << now_et, trading_client, selection_info,
                    analysis_vars, config_vars, main_vars, caller, cur_symbol,
                    queue, trades, broker_vars, log >>

\* the selector after a call of one of its selection methods, order being
\* the order of the set of get_all_symbols() after the call
MethodCalled(op, r, order) ==
    /\ result' = IF r.raised THEN Raised(r.calls)
                 ELSE Returned(r.value, r.calls)
    /\ calls' = calls \o r.calls
    /\ selector_log' = selector_log \o r.logged
    /\ selection' = [NoSelection EXCEPT !.op = op,
                                        !.made = selection.made + 1]
    /\ set_order' = order
    /\ pc' = "called"
    /\ UNCHANGED << now_et, trading_client, broker_universe_cache,
                    broker_cache_key, get_all_symbols, selection_info,
                    analysis_vars, config_vars, main_vars, caller, cur_symbol,
                    queue, trades, broker_vars, log >>

SectorLists == { None, << "Energy", "Crypto", "Technology" >> }

\* a call of get_diversified_stocks(stocks_per_sector, sectors)
CallGetDiversifiedStocks ==
    /\ pc \in { "selector", "selected", "called" }
    /\ SelectionsMade < MaxSelections
    /\ \E stocks_per_sector \in { 1, DEFAULT_STOCKS_PER_SECTOR, NaN },
          sectors \in SectorLists :
         MethodCalled("get_diversified_stocks",
                      GetDiversifiedStocks(stocks_per_sector, sectors),
                      set_order)

\* a call of get_high_volume_stocks(min_volume, limit)
CallGetHighVolumeStocks ==
    /\ pc \in { "selector", "selected", "called" }
    /\ SelectionsMade < MaxSelections
    /\ \E min_volume \in { DEFAULT_MIN_VOLUME, 0 }, limit \in Limits,
          market \in Markets, order \in OrdersRead(set_order, TRUE) :
         MethodCalled("get_high_volume_stocks",
                      GetHighVolumeStocks(
                          AllSymbols(get_all_symbols, order), min_volume,
                          limit, market),
                      order)

Directions == { "gainers", "losers", "both", "up" }

\* a call of get_top_movers(period_days, limit, direction)
CallGetTopMovers ==
    /\ pc \in { "selector", "selected", "called" }
    /\ SelectionsMade < MaxSelections
    /\ \E period_days \in PeriodDays, limit \in Limits,
          direction \in Directions, market \in Markets,
          order \in OrdersRead(set_order, TRUE) :
         MethodCalled("get_top_movers",
                      GetTopMovers(AllSymbols(get_all_symbols, order),
                                   period_days, limit, direction, market),
                      order)

SymbolLists ==
    { <<>>, << "AAPL", "SPY", "XOM", "MSFT", "AAPL" >> }

\* a call of get_selection_info(symbols)
CallGetSelectionInfo ==
    /\ pc \in { "selector", "selected", "called" }
    /\ SelectionsMade < MaxSelections
    /\ \E symbols \in SymbolLists :
         /\ selection_info' = GetSelectionInfo(symbols)
         /\ result' = Returned(GetSelectionInfo(symbols), <<>>)
         /\ selection' = [NoSelection EXCEPT !.op = "get_selection_info",
                                             !.made = selection.made + 1]
    /\ pc' = "called"
    /\ UNCHANGED << now_et, trading_client, broker_universe_cache,
                    broker_cache_key, get_all_symbols, set_order,
                    selector_log, analysis_vars, config_vars, main_vars,
                    caller, cur_symbol, queue, trades, broker_vars, calls,
                    log >>

NextSelector ==
    \/ CallSelectStocks
    \/ CallGetDiversifiedStocks
    \/ CallGetHighVolumeStocks
    \/ CallGetTopMovers
    \/ CallGetSelectionInfo

SpecSelector == InitSelector /\ [][NextSelector]_vars

\* the string as one value, the way the symbols of the bot and of the
\* selector are written
RECURSIVE Name(_)
Name(s) == IF s = <<>> THEN "" ELSE Head(s) \o Name(Tail(s))

\* ------------------------------------------------------------------------
\* Config
\* ------------------------------------------------------------------------
\* str.split(sep): the pieces of s between the occurrences of sep
RECURSIVE Split(_, _)
Split(s, sep) ==
    IF \A i \in DOMAIN s : s[i] # sep THEN << s >>
    ELSE LET k == CHOOSE i \in DOMAIN s :
                      s[i] = sep /\ \A j \in 1 .. (i - 1) : s[j] # sep
         IN << SubSeq(s, 1, k - 1) >> \o Split(SubSeq(s, k + 1, Len(s)), sep)

\* str.strip(): s without its leading and trailing blanks
RECURSIVE Strip(_)
Strip(s) ==
    IF s # <<>> /\ s[1] = " " THEN Strip(Tail(s))
    ELSE IF s # <<>> /\ s[Len(s)] = " " THEN Strip(SubSeq(s, 1, Len(s) - 1))
    ELSE s

\* the number a string of digits writes
RECURSIVE DigitsValue(_)
DigitsValue(digits) ==
    IF digits = <<>> THEN 0
    ELSE 10 * DigitsValue(SubSeq(digits, 1, Len(digits) - 1))
         + (Ord(digits[Len(digits)]) - Ord("0"))

\* int(s): blanks around the number are dropped, a minus sign may lead and
\* single underscores may stand between digits; anything else raises
\* ValueError
IntOfString(s) ==
    LET stripped == Strip(s)
        negative == stripped # <<>> /\ stripped[1] = "-"
        body == IF negative THEN Tail(stripped) ELSE stripped
        wellFormed ==
            /\ body # <<>>
            /\ \A i \in DOMAIN body :
                  \/ IsDigit(body[i])
                  \/ /\ body[i] = "_"
                     /\ 1 < i /\ i < Len(body)
                     /\ IsDigit(body[i - 1]) /\ IsDigit(body[i + 1])
        value == DigitsValue(SelectSeq(body, IsDigit))
    IN IF ~wellFormed THEN [raised |-> TRUE, value |-> 0]
       ELSE [raised |-> FALSE, value |-> IF negative THEN -value ELSE value]

\* the truth value Python gives a string or None
Truthy(x) == x # Unset /\ Len(x) > 0

\* a or b
Or(a, b) == IF Truthy(a) THEN a ELSE b

\* os.getenv(name, default)
GetEnv(e, name, default) == IF e[name] = Unset THEN default ELSE e[name]

\* the default of TRADING_SYMBOLS, 'AAPL,GOOG,TSLA'
DEFAULT_TRADING_SYMBOLS ==
    << "A", "A", "P", "L", ",", "G", "O", "O", "G", ",", "T", "S", "L", "A" >>

ConfigError(errors) == [raised |-> TRUE, errors |-> errors]

\* Config._validate: a key or secret that is None or empty is an error, and
\* so is a list of symbols that is empty
Validate(c) ==
    (IF ~Truthy(c.ALPACA_API_KEY)
     THEN << "ALPACA_API_KEY or APCA_API_KEY_ID is required" >> ELSE <<>>)
    \o (IF ~Truthy(c.ALPACA_SECRET)
        THEN << "ALPACA_SECRET or APCA_API_SECRET_KEY is required" >>
        ELSE <<>>)
    \o (IF Len(c.TRADING_SYMBOLS) = 0
        THEN << "TRADING_SYMBOLS is required" >> ELSE <<>>)

\* Config(): the object built from the environment e, or the ValueError
\* its validation raises
NewConfig(e) ==
    LET symbols_str == GetEnv(e, "TRADING_SYMBOLS", DEFAULT_TRADING_SYMBOLS)
        pieces == Split(symbols_str, ",")
        c == [raised |-> FALSE,
              ALPACA_API_KEY |-> Or(e.ALPACA_API_KEY, e.APCA_API_KEY_ID),
              ALPACA_SECRET |-> Or(e.ALPACA_SECRET, e.APCA_API_SECRET_KEY),
              TRADING_SYMBOLS |-> [i \in DOMAIN pieces |-> Strip(pieces[i])]]
    IN IF Validate(c) # <<>> THEN ConfigError(Validate(c)) ELSE c

\* the strings of at most MaxEnvLen characters over a letter, the comma and
\* the blank
EnvStrings == SeqsUpTo({ "A", ",", " " }, MaxEnvLen)

Credentials == { Unset, <<>>, << "k" >> }

TRUE_STRING == << "t", "r", "u", "e" >>

FALSE_STRING == << "f", "a", "l", "s", "e" >>

\* the default of STOCK_SELECTION_LIMIT, '10'
DEFAULT_SELECTION_LIMIT == << "1", "0" >>

\* os.getenv(name, 'false').lower() == 'true'
EnvFlag(e, name) == Lower(GetEnv(e, name, FALSE_STRING)) = TRUE_STRING

\* selection_method of main: the string is passed on unchanged and is kept
\* whole, as a sequence of one piece
SelectionMethod(e) ==
    GetEnv(e, "STOCK_SELECTION_METHOD", << "diversified" >>)[1]

\* broker_exchanges of main: the pieces of BROKER_EXCHANGES between commas
\* that are not blank, stripped and in upper case; None, like the empty
\* list, is the empty sequence
BrokerExchanges(e) ==
    LET broker_exchanges_str == GetEnv(e, "BROKER_EXCHANGES", <<>>)
        pieces == Split(broker_exchanges_str, ",")
        kept == SelectSeq(pieces, LAMBDA ex : Strip(ex) # <<>>)
    IN IF broker_exchanges_str = <<>> THEN <<>>
       ELSE [i \in DOMAIN kept |-> Upper(Strip(kept[i]))]

CredentialEnvs ==
    { [NoEnv EXCEPT !.ALPACA_API_KEY = k1, !.APCA_API_KEY_ID = k2,
                    !.ALPACA_SECRET = s1, !.APCA_API_SECRET_KEY = s2,
                    !.TRADING_SYMBOLS = t] :
        k1 \in Credentials, k2 \in { Unset, << "k" >> },
        s1 \in Credentials, s2 \in { Unset, << "k" >> },
        t \in { Unset } \cup EnvStrings }

\* environments with valid credentials that set the variables of the
\* dynamic stock selection; 'mixed' with the default limit of 10 is left
\* out, its set of 7 symbols having 5040 orders
SelectionEnvs ==
    { e \in
        { [NoEnv EXCEPT !.ALPACA_API_KEY = << "k" >>,
                        !.ALPACA_SECRET = << "k" >>,
                        !.TRADING_SYMBOLS = << "A" >>,
                        !.USE_DYNAMIC_STOCK_SELECTION = d,
                        !.STOCK_SELECTION_METHOD = m,
                        !.USE_BROKER_STOCK_UNIVERSE = u,
                        !.BROKER_EXCHANGES = x,
                        !.STOCK_SELECTION_LIMIT = l] :
            d \in { TRUE_STRING, << "T", "r", "u", "e" >>, << "1" >> },
            m \in { Unset, << "high_volume" >>, << "mixed" >>,
                    << "broker_all" >>, << "None" >> },
            u \in { Unset, TRUE_STRING },
            x \in { Unset, << "n", "y", "s", "e" >>,
                    << " ", "O", "T", "C", ",", ",", "n", "y", "s", "e" >>,
                    << ",", " " >> },
            l \in { Unset, << "2" >>, << " ", "4" >>, << "2", "x" >> } } :
        ~(e.STOCK_SELECTION_METHOD = << "mixed" >>
          /\ e.STOCK_SELECTION_LIMIT = Unset) }

Envs == CredentialEnvs \cup SelectionEnvs

\* the characters of a symbol
SymbolChars(symbol) ==
    CASE symbol = "AAPL" -> << "A", "A", "P", "L" >>
      [] symbol = "GOOG" -> << "G", "O", "O", "G" >>

\* ','.join(symbols) of a list that is not empty
RECURSIVE CommaJoined(_)
CommaJoined(symbols) ==
    IF Len(symbols) = 1 THEN SymbolChars(symbols[1])
    ELSE SymbolChars(Head(symbols)) \o << "," >> \o CommaJoined(Tail(symbols))

\* the values of TRADING_SYMBOLS of the runs: unset, or a list of symbols
RunSymbolStrings ==
    { Unset }
    \cup { CommaJoined(l) : l \in SeqsUpTo(Symbols, MaxSymbols) \ { <<>> } }

\* the values of STOCK_SELECTION_LIMIT of the runs
RunLimits ==
    { l \in { << "0" >>, << "1" >>, << "2" >>, << "3" >>, << "x" >> } :
        IntOfString(l).raised \/ IntOfString(l).value <= MaxSymbols }

\* the environments of the runs of main, with valid credentials: the runs
\* over the symbols of TRADING_SYMBOLS and the runs with the dynamic
\* selection; a run goes over MaxSymbols symbols at most
RunEnvs ==
    { e \in
        { [NoEnv EXCEPT !.ALPACA_API_KEY = << "k" >>,
                        !.ALPACA_SECRET = << "k" >>,
                        !.DRY_RUN = dry_run,
                        !.TRADING_SYMBOLS = t] :
            dry_run \in { Unset, TRUE_STRING }, t \in RunSymbolStrings }
        \cup
        { [NoEnv EXCEPT !.ALPACA_API_KEY = << "k" >>,
                        !.ALPACA_SECRET = << "k" >>,
                        !.DRY_RUN = dry_run,
                        !.TRADING_SYMBOLS = << "A", "A", "P", "L" >>,
                        !.USE_DYNAMIC_STOCK_SELECTION = TRUE_STRING,
                        !.STOCK_SELECTION_METHOD = m,
                        !.STOCK_SELECTION_LIMIT = l] :
            dry_run \in { Unset, TRUE_STRING },
            m \in { Unset, << "high_volume" >>, << "None" >> },
            l \in RunLimits } :
        Len(NewConfig(e).TRADING_SYMBOLS) <= MaxSymbols
        \/ EnvFlag(e, "USE_DYNAMIC_STOCK_SELECTION") }

InitConfig ==
    /\ now_et = NoTime
    /\ IdleSelector
    /\ pc = "config"
    /\ df = None
    /\ indicators = None
    /\ tally = NoVote
    /\ signals = <<>>
    /\ metadata = NoMetadata
    /\ refetched = None
    /\ env \in Envs
    /\ config = None
    /\ DRY_RUN = FALSE
    /\ IdleMain
    /\ IdleExec
    /\ buying_power = MaxBuyingPower
    /\ positions = [s \in Symbols |-> 0]
    /\ next_order_id = 1
    /\ calls = <<>>
    /\ log = <<>>

\* main reads DRY_RUN and constructs the Config, whose DRY_RUN it sets: a
\* ValueError of Config ends the run
ConstructConfig ==
    /\ pc = "config"
    /\ config' = NewConfig(env)
    /\ IF NewConfig(env).raised
       THEN /\ pc' = "failed"
            /\ DRY_RUN' = DRY_RUN
       ELSE /\ pc' = "start"
            /\ DRY_RUN' = EnvFlag(env, "DRY_RUN")
    /\ UNCHANGED << now_et, selector_vars, analysis_vars, env, main_vars,
                    exec_vars, broker_vars, calls, log >>

\* main after the market gate and the account snapshot, dynamic selection
\* being off: the symbols of the run are config.TRADING_SYMBOLS
UseTradingSymbols ==
    /\ pc = "select"
    /\ ~EnvFlag(env, "USE_DYNAMIC_STOCK_SELECTION")
    /\ trading_symbols' = [i \in DOMAIN config.TRADING_SYMBOLS |->
                               Name(config.TRADING_SYMBOLS[i])]
    /\ pc' = "loop"
    /\ UNCHANGED << now_et, selector_vars, analysis_vars, config_vars, idx, symbols_analyzed,
                    all_signals, trades_executed, daily_report, files,
                    exec_vars, broker_vars, calls, log >>

\* main after the market gate and the account snapshot, dynamic selection
\* being on: main constructs a selector with the trading client of the bot
\* and the symbols of the run are those select_stocks returns; int() of a
\* STOCK_SELECTION_LIMIT that writes no integer raises before select_stocks
\* is called
SelectDynamicStocks ==
    /\ pc = "select"
    /\ EnvFlag(env, "USE_DYNAMIC_STOCK_SELECTION")
    /\ trading_client' = TRUE
    /\ LET selection_method == SelectionMethod(env)
           use_broker_universe == EnvFlag(env, "USE_BROKER_STOCK_UNIVERSE")
           broker_exchanges == BrokerExchanges(env)
           limit == IntOfString(GetEnv(env, "STOCK_SELECTION_LIMIT",
                                 DEFAULT_SELECTION_LIMIT))
       IN IF limit.raised
          THEN /\ pc' = "failed"
               /\ UNCHANGED << broker_universe_cache, broker_cache_key,
                               get_all_symbols, selector_log, selection,
                               selection_info, set_order, trading_symbols,
                               calls >>
          ELSE \E answer \in AnswersRead(selection_method,
                                         use_broker_universe),
                  market \in MarketsRead(selection_method) :
               \E g \in { GetTradableStocksFromBroker(
                              TRUE, None, None, TRUE, broker_exchanges,
                              answer) } :
               \E order \in OrdersRead(<< >>,
                                        BuildsSet(g, None, selection_method,
                                                  limit.value,
                                                  use_broker_universe)) :
               \E mixed_order \in MixedOrders(selection_method, limit.value,
                      SymbolsSelectedFrom(g, None, use_broker_universe,
                                          order),
                      market) :
               \E r \in { SelectStocks(TRUE, None, None, None,
                                       selection_method, limit.value,
                                       use_broker_universe, broker_exchanges,
                                       answer, market, order,
                                       mixed_order) } :
                 /\ set_order' = order
                 /\ StocksSelected(r, selection_method, limit.value,
                                   use_broker_universe, broker_exchanges)
                 /\ IF r.raised
                    THEN /\ pc' = "failed"
                         /\ UNCHANGED << trading_symbols, selection_info >>
                    ELSE /\ pc' = "loop"
                         /\ selection_info' = GetSelectionInfo(r.value)
                         /\ trading_symbols' = r.value
    /\ UNCHANGED << now_et, analysis_vars, config_vars, idx, symbols_analyzed,
                    all_signals, trades_executed, daily_report, files,
                    exec_vars, broker_vars, log >>

\* ------------------------------------------------------------------------
\* The run of main
\* ------------------------------------------------------------------------
\* variant: every evaluation adds an entry (a list, not a dict)
DictSet_AlwaysAppends(d, k, v) == Append(d, << k, v >>)

\* symbols_analyzed[k] = v on a dict kept as a sequence of <<key, value>>
DictSet(d, k, v) ==
    IF \E i \in DOMAIN d : d[i][1] = k
    THEN [i \in DOMAIN d |-> IF d[i][1] = k THEN << k, v >> ELSE d[i]]
    ELSE Append(d, << k, v >>)

SymbolDetail(entry) ==
    LET data == entry[2]
        sigs == data.signals
    IN [symbol |-> entry[1],
        action |-> IF sigs # <<>> THEN sigs[1][1] ELSE "HOLD",
        reason |-> IF sigs # <<>> THEN sigs[1][2] ELSE << "No strong signal" >>,
        buy_indicators |-> data.buy_count,
        sell_indicators |-> data.sell_count,
        factors |-> data.factors]

\* generate_daily_report(symbols_analyzed, all_signals, trades_executed);
\* account_ok tells whether its account fetch succeeded
GenerateDailyReport(analyzed, sigs, executed, account_ok, bp) ==
    LET HasSignals(e) == IF e[2].signals # <<>> THEN 1 ELSE 0
        BuyCount(e) == e[2].buy_count
        SellCount(e) == e[2].sell_count
        SumOver(d, F(_)) == SumSeq([i \in DOMAIN d |-> F(d[i])])
    IN [account |-> [buying_power |-> IF account_ok THEN bp ELSE 0],
        analysis |-> [symbols_analyzed |-> Len(analyzed),
                      symbols_with_signals |-> SumOver(analyzed, HasSignals),
                      total_buy_signals |-> SumOver(analyzed, BuyCount),
                      total_sell_signals |-> SumOver(analyzed, SellCount),
                      signals_generated |-> Len(sigs)],
        symbols |-> [i \in DOMAIN analyzed |-> SymbolDetail(analyzed[i])],
        trades |-> executed,
        summary |-> [trades_executed |-> Len(executed)]]

\* generate_markdown_summary(report) calls trade.get(...) on every entry of
\* report['trades']: it raises AttributeError on an entry that is None
MarkdownSummaryRaises(report) ==
    \E i \in DOMAIN report.trades : report.trades[i] = None

\* the series the fetches of a run return
RunFrames == { None, FrameHold, FrameAllBull, FrameAllBear }

RunRefetched(f) == { f, None, FrameAllBear }

RunPrices == { 0, 50 }

\* the symbols a run can trade: those of TRADING_SYMBOLS and those the
\* selector can return
RunSymbols == Symbols \cup Elements(UniverseSymbols)

\* main is started in an environment; the account holds a position in AAPL
Init ==
    /\ now_et = NoTime
    /\ IdleSelector
    /\ pc = "config"
    /\ df = None
    /\ indicators = None
    /\ tally = NoVote
    /\ signals = <<>>
    /\ metadata = NoMetadata
    /\ refetched = None
    /\ env \in RunEnvs
    /\ config = None
    /\ DRY_RUN = FALSE
    /\ IdleMain
    /\ IdleExec
    /\ buying_power = MaxBuyingPower
    /\ positions = [s \in RunSymbols |-> IF s = "AAPL" THEN 10 * MaxPosition
                                       ELSE 0]
    /\ next_order_id = 1
    /\ calls = <<>>
    /\ log = <<>>

\* variant: the account snapshot is taken before the market gate
Start_AccountBeforeGate ==
    /\ pc = "start"
    /\ \E weekday \in Weekdays, holiday \in BOOLEAN, clock \in ClockAnswers,
          current_time \in Times, account_ok \in BOOLEAN :
         LET asked == weekday < 5 /\ ~holiday
             c1 == IF asked THEN << Call("get_clock", "", clock) >> ELSE <<>>
             c0 == << Call("get_account", "",
                           IF account_ok THEN buying_power ELSE 0) >>
         IN /\ calls' = calls \o c0 \o c1
            /\ pc' = IF ~account_ok THEN "failed"
                     ELSE IF ShouldRunToday(weekday, holiday, clock,
                                            current_time)
                     THEN "select" ELSE "skipped"
    /\ UNCHANGED << now_et, selector_vars, analysis_vars, config_vars,
                    main_vars, exec_vars, broker_vars, log >>

\* main from the construction of the bot to the choice of its symbols: the
\* market gate, then the account snapshot
Start ==
    /\ pc = "start"
    /\ \E weekday \in Weekdays, holiday \in BOOLEAN, clock \in ClockAnswers,
          current_time \in Times, account_ok \in BOOLEAN :
         LET asked == weekday < 5 /\ ~holiday
             c1 == IF asked THEN << Call("get_clock", "", clock) >> ELSE <<>>
         IN IF ~ShouldRunToday(weekday, holiday, clock, current_time)
            THEN /\ pc' = "skipped"
                 /\ calls' = calls \o c1
            ELSE /\ pc' = IF account_ok THEN "select" ELSE "failed"
                 /\ calls' = calls \o c1
                       \o << Call("get_account", "",
                                  IF account_ok THEN buying_power ELSE 0) >>
    /\ UNCHANGED << now_et, selector_vars, analysis_vars, config_vars, main_vars, exec_vars,
                    broker_vars, log >>

\* one iteration of the symbol loop of main, up to the call of
\* execute_trades
AnalyzeSymbol ==
    /\ pc = "loop"
    /\ idx <= Len(trading_symbols)
    /\ \E fetched \in RunFrames : \E again \in RunRefetched(fetched) :
         LET symbol == trading_symbols[idx]
             r == GenerateSignalsWithMetadata(symbol, fetched, again)
         IN /\ df' = fetched
            /\ refetched' = again
            /\ tally' = TallyOf(symbol, fetched)
            /\ signals' = r[1]
            /\ metadata' = r[2]
            /\ symbols_analyzed' = DictSet(symbols_analyzed, symbol, r[2])
            /\ all_signals' = all_signals \o r[1]
            /\ calls' = calls \o << Call("get_stock_bars", symbol, 0),
                                    Call("get_stock_bars", symbol, 0) >>
            /\ IF r[1] # <<>> /\ ~DRY_RUN
               THEN /\ pc' = "exec"
                    /\ caller' = "main"
                    /\ cur_symbol' = symbol
                    /\ queue' = r[1]
                    /\ trades' = <<>>
                    /\ idx' = idx
               ELSE /\ idx' = idx + 1
                    /\ UNCHANGED << now_et, selector_vars, pc, caller, cur_symbol, queue, trades >>
    /\ UNCHANGED << now_et, selector_vars, indicators, config_vars, trading_symbols, trades_executed,
                    daily_report, files, result, broker_vars, log >>

\* the symbol loop is over: main builds the daily report
BuildDailyReport ==
    /\ pc = "loop"
    /\ idx > Len(trading_symbols)
    /\ \E account_ok \in BOOLEAN :
         /\ daily_report' = GenerateDailyReport(symbols_analyzed, all_signals,
                                trades_executed, account_ok, buying_power)
         /\ calls' = calls \o << Call("get_account", "",
                                      IF account_ok THEN buying_power ELSE 0) >>
    /\ pc' = "json"
    /\ UNCHANGED << now_et, selector_vars, analysis_vars, config_vars, trading_symbols, idx,
                    symbols_analyzed, all_signals, trades_executed, files,
                    exec_vars, broker_vars, log >>

WriteJsonReports ==
    /\ pc = "json"
    /\ files' = files \cup { "trading_report.json", "daily_report.json" }
    /\ pc' = "html"
    /\ UNCHANGED << now_et, selector_vars, analysis_vars, config_vars, trading_symbols, idx,
                    symbols_analyzed, all_signals, trades_executed,
                    daily_report, exec_vars, broker_vars, calls, log >>

SaveHtmlReport ==
    /\ pc = "html"
    /\ files' = files \cup { "daily_report.html" }
    /\ pc' = "markdown"
    /\ UNCHANGED << now_et, selector_vars, analysis_vars, config_vars, trading_symbols, idx,
                    symbols_analyzed, all_signals, trades_executed,
                    daily_report, exec_vars, broker_vars, calls, log >>

WriteMarkdownSummary ==
    /\ pc = "markdown"
    /\ IF MarkdownSummaryRaises(daily_report)
       THEN /\ pc' = "failed"
            /\ files' = files
       ELSE /\ pc' = "done"
            /\ files' = files \cup { "daily_summary.md" }
    /\ UNCHANGED << now_et, selector_vars, analysis_vars, config_vars, trading_symbols, idx,
                    symbols_analyzed, all_signals, trades_executed,
                    daily_report, exec_vars, broker_vars, calls, log >>

Next ==
    \/ ConstructConfig
    \/ Start
    \/ UseTradingSymbols
    \/ SelectDynamicStocks
    \/ AnalyzeSymbol
    \/ ExecuteSignal(RunPrices)
    \/ ReturnTrades
    \/ BuildDailyReport
    \/ WriteJsonReports
    \/ SaveHtmlReport
    \/ WriteMarkdownSummary

Spec == Init /\ [][Next]_vars

\* main from the construction of its Config to the start of the symbol loop
NextConfig ==
    \/ ConstructConfig
    \/ Start
    \/ UseTradingSymbols
    \/ SelectDynamicStocks

SpecConfig == InitConfig /\ [][NextConfig]_vars

\* ------------------------------------------------------------------------
\* Properties of the signal aggregator
\* ------------------------------------------------------------------------
Decided == pc \in { "generated", "reported" }

Short(f) == f = None \/ f.n < 30

Actions(sigs) == { sigs[i][1] : i \in DOMAIN sigs }

\* C1: the decision is BUY exactly when buy_votes >= 3, SELL exactly when
\* buy_votes < 3 and sell_votes >= 3, and HOLD (no signal) otherwise; with
\* both tallies at 3 or more BUY wins.
C1_ThresholdDecision ==
    Decided =>
        /\ (tally.buy >= 3) <=> (signals = << Signal("BUY", tally.reasons) >>)
        /\ (tally.buy < 3 /\ tally.sell >= 3)
              <=> (signals = << Signal("SELL", tally.reasons) >>)
        /\ (tally.buy < 3 /\ tally.sell < 3) <=> (signals = <<>>)

C1_Witness ==
    /\ pc = "generated"
    /\ tally.buy = 3
    /\ tally.sell = 3
    /\ signals = << Signal("BUY", tally.reasons) >>

\* C2: one call of generate_signals returns at most one BUY or SELL signal,
\* never a BUY together with a SELL.
C2_AtMostOneSignal ==
    Decided =>
        /\ Cardinality({ i \in DOMAIN signals :
                            signals[i][1] \in { "BUY", "SELL" } }) <= 1
        /\ ~({ "BUY", "SELL" } \subseteq Actions(signals))

C2_Witness ==
    /\ pc = "generated"
    /\ tally.buy >= 3
    /\ tally.sell >= 3
    /\ Len(signals) = 1

\* C9: for a missing series and for a series of fewer than 30 bars,
\* calculate_technical_indicators returns None, generate_signals returns
\* the empty list, and the metadata has zero counts and no factor; a series
\* of exactly 30 bars is accepted.
C9_InsufficientData ==
    /\ pc = "calculated" => ((indicators = None) <=> Short(df))
    /\ Decided /\ Short(df) => signals = <<>> /\ tally = NoVote
    /\ pc = "reported" /\ Short(refetched) =>
          /\ metadata.buy_count = 0
          /\ metadata.sell_count = 0
          /\ metadata.factors = <<>>

C9_Witness ==
    /\ pc = "reported"
    /\ df # None
    /\ df.n = 29
    /\ refetched = df
    /\ signals = <<>>
    /\ metadata.buy_count = 0
    /\ metadata.factors = <<>>

InSeq(x, s) == \E i \in DOMAIN s : s[i] = x

\* C10: an undefined indicator value takes part in no vote: an undefined
\* RSI adds no RSI vote, an undefined latest or previous MACD or MACD signal
\* no crossover vote, an undefined latest or previous SMA-20 or SMA-50 no
\* moving-average vote, an undefined volume ratio no volume vote.
C10_UndefinedNeverVotes ==
    pc = "generated" /\ ~Short(df) =>
        LET a == CalculateTechnicalIndicators(df)
            latest == Latest(a)
            previous == Previous(a)
            voted(r) == InSeq(r, tally.reasons)
        IN /\ IsNa(latest.rsi) =>
                 ~voted("RSI oversold") /\ ~voted("RSI overbought")
           /\ (IsNa(latest.macd) \/ IsNa(previous.macd)
               \/ IsNa(latest.macd_signal) \/ IsNa(previous.macd_signal)) =>
                 /\ ~voted("MACD bullish crossover")
                 /\ ~voted("MACD bearish crossover")
           /\ (IsNa(latest.sma_20) \/ IsNa(previous.sma_20)
               \/ IsNa(latest.sma_50) \/ IsNa(previous.sma_50)) =>
                 /\ ~voted("Golden cross (SMA 20 > SMA 50)")
                 /\ ~voted("Death cross (SMA 20 < SMA 50)")
                 /\ ~voted("Price above rising moving averages")
                 /\ ~voted("Price below falling moving averages")
           /\ IsNa(latest.volume_ratio) =>
                 /\ ~voted("High volume breakout")
                 /\ ~voted("High volume selling")

C10_Witness ==
    /\ pc = "generated"
    /\ ~Short(df)
    /\ IsNa(df.rsi[2])
    /\ IsNa(df.volume_ratio[2])
    /\ IsNa(df.macd_signal[1])
    /\ ~IsNa(df.sma_50[2])
    /\ tally.buy = 3
    /\ signals # <<>>

\* the reasons each of the seven checks of generate_signals can append
CheckReasons ==
    << { "RSI oversold", "RSI overbought" },
       { "MACD bullish crossover", "MACD bearish crossover" },
       { "Golden cross (SMA 20 > SMA 50)", "Death cross (SMA 20 < SMA 50)" },
       { "Price above rising moving averages",
         "Price below falling moving averages" },
       { "High volume breakout", "High volume selling" },
       { "Double top pattern detected", "Double bottom pattern detected",
         "Strong upward trend", "Strong downward trend" },
       { "Positive news sentiment", "Negative news sentiment" } >>

\* C11: each of the seven checks of generate_signals adds at most one vote,
\* to one side, with one reason: buy_votes + sell_votes <= 7 and the number
\* of reasons is buy_votes + sell_votes.
C11_OneVotePerCheck ==
    pc = "generated" =>
        /\ tally.buy >= 0
        /\ tally.sell >= 0
        /\ tally.buy + tally.sell <= 7
        /\ Len(tally.reasons) = tally.buy + tally.sell
        /\ \A k \in DOMAIN CheckReasons :
              Cardinality({ i \in DOMAIN tally.reasons :
                               tally.reasons[i] \in CheckReasons[k] }) <= 1
        /\ \A i \in DOMAIN tally.reasons :
              \E k \in DOMAIN CheckReasons : tally.reasons[i] \in CheckReasons[k]

C11_Witness ==
    /\ pc = "generated"
    /\ tally.buy = 4
    /\ tally.sell = 2
    /\ Len(tally.reasons) = 6

\* the latest volume ratio of the series is above 1.5 / below 0.5
HighVolume == ~IsNa(df.volume_ratio[2]) /\ df.volume_ratio[2] > 150

LowVolume == ~IsNa(df.volume_ratio[2]) /\ df.volume_ratio[2] < 50

CloseChange == df.close[Len(df.close)] - df.close[Len(df.close) - 1]

\* C20 as claimed: BULLISH exactly when the ratio is > 1.5 and the close
\* rose, BEARISH exactly when the ratio is > 1.5 and the close fell, NEUTRAL
\* in every other case, a ratio > 1.5 with an unchanged close included.
C20_VolumeOpinionAsClaimed ==
    pc = "volume" /\ df # None /\ df.n >= 2 =>
        LET label == result.value.label
        IN /\ label = "BULLISH" <=> HighVolume /\ CloseChange > 0
           /\ label = "BEARISH" <=> HighVolume /\ CloseChange < 0
           /\ label = "NEUTRAL" <=> ~(HighVolume /\ CloseChange # 0)

\* C20: analyze_volume returns BULLISH exactly when the latest volume ratio
\* is > 1.5 and the latest close rose, BEARISH exactly when the ratio is
\* > 1.5 and the close did not rise (fell or unchanged), and NEUTRAL exactly
\* when the ratio is not > 1.5: "Low volume" when it is < 0.5, "Normal
\* volume" otherwise.
C20_VolumeOpinion ==
    pc = "volume" /\ df # None /\ df.n >= 2 =>
        LET label == result.value.label
            reason == result.value.reason
        IN /\ label = "BULLISH" <=> HighVolume /\ CloseChange > 0
           /\ label = "BEARISH" <=> HighVolume /\ CloseChange <= 0
           /\ label = "NEUTRAL" <=> ~HighVolume
           /\ reason = "High volume breakout" <=> label = "BULLISH"
           /\ reason = "High volume selling" <=> label = "BEARISH"
           /\ reason = "Low volume" <=> LowVolume
           /\ reason = "Normal volume" <=> ~HighVolume /\ ~LowVolume

C20_Witness ==
    /\ pc = "volume"
    /\ df # None
    /\ df.n >= 2
    /\ HighVolume
    /\ CloseChange = 0
    /\ result.value = Opinion("BEARISH", "High volume selling")

TrendReasons ==
    { "Strong upward trend", "Strong downward trend", "No clear pattern" }

\* C21: in detect_price_patterns the double-top check comes first and the
\* double-bottom check second; each short-circuits what follows: BEARISH
\* "Double top" whenever the double-top condition holds (the double-bottom
\* condition holding too or not), BULLISH "Double bottom" whenever only
\* the double-bottom condition holds, the 5% trend check otherwise.
C21_PatternPrecedence ==
    pc = "pattern" /\ df # None /\ df.n >= 10 =>
        LET op == result.value
        IN /\ DoubleTop(df) =>
                 op = Opinion("BEARISH", "Double top pattern detected")
           /\ ~DoubleTop(df) /\ DoubleBottom(df) =>
                 op = Opinion("BULLISH", "Double bottom pattern detected")
           /\ op.reason \in TrendReasons <=> ~DoubleTop(df) /\ ~DoubleBottom(df)

C21_Witness ==
    /\ pc = "pattern"
    /\ df # None
    /\ df.n >= 10
    /\ DoubleTop(df)
    /\ DoubleBottom(df)
    /\ result.value = Opinion("BEARISH", "Double top pattern detected")

\* C22: analyze_volume and detect_price_patterns never raise on missing
\* data: for a None series, an empty series and a series of fewer than 2
\* rows (volume) or 10 rows (pattern) each returns (None, None), which the
\* aggregator counts as no vote.
C22_MissingDataNoOpinion ==
    /\ pc \in { "volume", "pattern" } => ~result.raised
    /\ pc = "volume" /\ (df = None \/ df.n < 2) =>
          /\ result.value = NoOpinion
          /\ FactorVote(result.value, "BULLISH", "BEARISH") = NoVote
    /\ pc = "pattern" /\ (df = None \/ df.n < 10) =>
          /\ result.value = NoOpinion
          /\ FactorVote(result.value, "BULLISH", "BEARISH") = NoVote
    /\ pc = "volume" /\ df # None /\ df.n >= 2 => result.value # NoOpinion
    /\ pc = "pattern" /\ df # None /\ df.n >= 10 => result.value # NoOpinion

C22_Witness ==
    /\ pc = "pattern"
    /\ df # None
    /\ df.n = 9
    /\ Len(df.close) = 9
    /\ result.value = NoOpinion

\* C28: the vote counts generate_signals_with_metadata reports agree with
\* the signal it returns, whatever the second fetch of the series gives: a
\* BUY signal implies buy_count >= 3, a SELL signal implies sell_count >= 3
\* and buy_count < 3, and no signal implies that both counts are < 3.
C28_CountsAgreeWithSignal ==
    pc = "reported" =>
        /\ \A i \in DOMAIN signals :
              /\ signals[i][1] = "BUY" =>
                    metadata.buy_count >= SIGNAL_THRESHOLD
              /\ signals[i][1] = "SELL" =>
                    /\ metadata.sell_count >= SIGNAL_THRESHOLD
                    /\ metadata.buy_count < SIGNAL_THRESHOLD
        /\ signals = <<>> =>
              /\ metadata.buy_count < SIGNAL_THRESHOLD
              /\ metadata.sell_count < SIGNAL_THRESHOLD

\* generate_signals has decided on a series of 30 to 49 bars
ShortOfLongAverage ==
    /\ pc = "generated"
    /\ df # None
    /\ MIN_BARS <= df.n
    /\ df.n < SMA_LONG_WINDOW

MovingAverageReasons ==
    { "Golden cross (SMA 20 > SMA 50)", "Death cross (SMA 20 < SMA 50)",
      "Price above rising moving averages",
      "Price below falling moving averages" }

\* C29 as claimed: on a series of 30 <= n < 50 bars the 50-period average
\* is undefined on the latest row, the four moving-average checks add no
\* vote, and buy_votes and sell_votes are each at most 3.
C29_AtMostThreeVotes ==
    ShortOfLongAverage =>
        /\ IsNa(Latest(CalculateTechnicalIndicators(df)).sma_50)
        /\ \A i \in DOMAIN tally.reasons :
              tally.reasons[i] \notin MovingAverageReasons
        /\ tally.buy <= 3
        /\ tally.sell <= 3

\* C29: on a series of 30 <= n < 50 bars the 50-period average is undefined
\* on the latest row, the four moving-average checks add no vote, and
\* buy_votes and sell_votes are each at most 4: RSI, MACD crossover, volume
\* and pattern.
C29_AtMostFourVotes ==
    ShortOfLongAverage =>
        /\ IsNa(Latest(CalculateTechnicalIndicators(df)).sma_50)
        /\ \A i \in DOMAIN tally.reasons :
              tally.reasons[i] \notin MovingAverageReasons
        /\ tally.buy <= 4
        /\ tally.sell <= 4

C29_Witness ==
    /\ ShortOfLongAverage
    /\ ~IsNa(df.sma_50[2])
    /\ Gt(df.sma_20[2], df.sma_50[2])
    /\ tally.buy = 4
    /\ signals # <<>>

\* ------------------------------------------------------------------------
\* Properties of order sizing and execution
\* ------------------------------------------------------------------------
\* place_buy_order / place_sell_order was called directly and has ended
Direct(action) ==
    /\ pc = "returned"
    /\ caller = "none"
    /\ log # <<>>
    /\ log[Len(log)].action = action

Outcomes(o) == { i \in DOMAIN log : log[i].outcome = o }

SubmitCalls == { i \in DOMAIN calls : calls[i].op = "submit_order" }

QuoteCalls == { i \in DOMAIN calls : calls[i].op = "get_stock_latest_quote" }

\* C3: a buy order is for max(1, floor(0.20 * buying_power / ask_price))
\* shares, an integer that is at least 1 even when one share costs more
\* than 20% of the buying power.
C3_BuySizing ==
    /\ Direct("BUY") /\ ~result.raised =>
          LET bp == calls[1].arg
              price == calls[2].arg
              k == result.value.shares
          IN /\ calls[1].op = "get_account"
             /\ price = result.value.price
             /\ price > 0
             /\ k >= 1
             /\ IF bp < 5 * price THEN k = 1
                ELSE 5 * k * price <= bp /\ bp < 5 * (k + 1) * price
    /\ \A i \in DOMAIN trades :
          IsTrade(trades[i]) /\ trades[i].action = "BUY" =>
              trades[i].shares >= 1

C3_Witness ==
    /\ Direct("BUY")
    /\ ~result.raised
    /\ calls[1].arg > 0
    /\ 5 * result.value.price > calls[1].arg
    /\ result.value.shares = 1

DryRunFields == { "symbol", "action", "reason", "shares", "price", "status" }

IsDryRunResult(t) ==
    /\ DOMAIN t = DryRunFields
    /\ t.status = "DRY_RUN"

\* C4: with DRY_RUN set, place_buy_order and place_sell_order never call
\* the order submission of the brokerage; what they return has status
\* DRY_RUN, the fields symbol, action, reason, shares and price of a live
\* result, and no order identifier.
C4_DryRunNoSubmission ==
    DRY_RUN =>
        /\ SubmitCalls = {}
        /\ next_order_id = 1
        /\ (Direct("BUY") \/ Direct("SELL")) /\ ~result.raised
              /\ IsTrade(result.value) => IsDryRunResult(result.value)
        /\ \A i \in DOMAIN trades :
              IsTrade(trades[i]) => IsDryRunResult(trades[i])

C4_Witness ==
    /\ DRY_RUN
    /\ Direct("SELL")
    /\ ~result.raised
    /\ IsTrade(result.value)
    /\ result.value.shares = MaxPosition
    /\ QuoteCalls # {}

\* C5: place_sell_order on a symbol whose position lookup fails, or whose
\* held quantity is <= 0, returns the skipped outcome (None): it raises
\* nothing, fetches no quote and submits no order.
C5_SellWithoutPosition ==
    Direct("SELL") =>
        LET lookup == calls[1]
        IN /\ lookup.op = "get_open_position"
           /\ (~lookup.arg[1] \/ lookup.arg[2] <= 0) =>
                 /\ ~result.raised
                 /\ result.value = None
                 /\ QuoteCalls = {}
                 /\ SubmitCalls = {}
                 /\ log[Len(log)].outcome = "SkippedNoPosition"

C5_Witness ==
    /\ Direct("SELL")
    /\ ~DRY_RUN
    /\ ~calls[1].arg[1]
    /\ positions[cur_symbol] = 0
    /\ result.value = None
    /\ Len(calls) = 1

\* C19: when place_sell_order finds an open position with quantity > 0,
\* the order it submits, or the DRY_RUN result it returns, is for the entire
\* held quantity, never less.
C19_SellsEntirePosition ==
    Direct("SELL") /\ calls[1].arg[1] /\ calls[1].arg[2] > 0
        /\ (Len(calls) = 1 \/ ~result.raised) =>
            /\ IsTrade(result.value)
            /\ 10 * result.value.shares = calls[1].arg[2]

\* execute_trades was called directly and is running or has returned
InExecuteTrades == caller = "api"

SleepCalls == { i \in DOMAIN calls : calls[i].op = "sleep" }

\* C12: within one execute_trades call in live mode, between any two
\* successive order-submission calls there is a pause of at least 1 second.
C12_PauseBetweenSubmissions ==
    InExecuteTrades /\ ~DRY_RUN =>
        \A i \in SubmitCalls : \A j \in SubmitCalls :
            i < j => \E k \in (i + 1) .. (j - 1) :
                        calls[k].op = "sleep" /\ calls[k].arg >= 1

\* C13 as claimed: after a signal whose result has status DRY_RUN,
\* execute_trades goes on to the next signal without sleeping.
C13_NoPauseAfterDryRun ==
    InExecuteTrades /\ log # <<>> /\ log[Len(log)].outcome = "DryRunResult"
        => calls[Len(calls)].op # "sleep"

\* C13: the 1-second pause of execute_trades follows a DRY_RUN result as
\* it follows a SUBMITTED one: every signal whose result has status DRY_RUN
\* is followed by one sleep of 1 second before the next signal.
C13_PauseAfterDryRun ==
    InExecuteTrades =>
        /\ log # <<>> /\ log[Len(log)].outcome \in { "DryRunResult", "Submitted" }
              => calls[Len(calls)] = Call("sleep", "", 1)
        /\ DRY_RUN =>
              Cardinality(SleepCalls) = Cardinality(DOMAIN log \ Outcomes("Failed"))

C13_Witness ==
    /\ InExecuteTrades
    /\ DRY_RUN
    /\ Len(log) = 2
    /\ log[1].outcome = "DryRunResult"
    /\ log[2].outcome = "DryRunResult"
    /\ Cardinality(SleepCalls) = 2

\* should_run_today was called on a weekday that is no holiday and the
\* market-clock call failed
ClockFailed ==
    /\ pc = "gate"
    /\ now_et.weekday < 5
    /\ ~now_et.holiday
    /\ result.calls = << Call("get_clock", "", "fail") >>

\* C23: when the market-clock call fails on a weekday that is no holiday,
\* should_run_today returns true exactly when the Eastern time t satisfies
\* 09:30 <= t < 16:00, the closing time 16:00 being outside the window.
C23_FallbackWindow ==
    ClockFailed =>
        (result.value <=> MARKET_OPEN_TIME <= now_et.time
                          /\ now_et.time < MARKET_CLOSE_TIME)

\* ------------------------------------------------------------------------
\* Properties of the run of main
\* ------------------------------------------------------------------------
ReportStages == { "json", "html", "markdown", "done" }

AnalyzedSymbols == { symbols_analyzed[i][1] : i \in DOMAIN symbols_analyzed }

RequestedSymbols == { trading_symbols[i] : i \in DOMAIN trading_symbols }

\* the trades returned so far and the ones execute_trades holds
TradesSoFar == trades_executed \o (IF pc = "exec" THEN trades ELSE <<>>)

\* C6: a SELL signal executed in live mode for a symbol without an open
\* position is no error for the run: the run still goes through the other
\* symbols and completes its reports (JSON, HTML, Markdown) without raising.
C6_SkippedSellCompletesRun ==
    Outcomes("SkippedNoPosition") # {} => pc # "failed"

\* C7: a failure while sizing or submitting the order of one signal is
\* caught in execute_trades: the signal adds no entry to the trade list,
\* the exception does not reach the symbol loop of main, and the later
\* symbols are still evaluated and executed.
C7_OrderFailureIsContained ==
    /\ Len(TradesSoFar) = Cardinality(DOMAIN log \ Outcomes("Failed"))
    /\ pc = "failed" => (log = <<>> /\ idx = 1) \/ daily_report # NoReport
    /\ pc \in ReportStages =>
          /\ idx = Len(trading_symbols) + 1
          /\ AnalyzedSymbols = RequestedSymbols
          /\ ~DRY_RUN => Len(log) = Len(all_signals)

C7_Witness ==
    /\ pc = "done"
    /\ Len(trading_symbols) = 2
    /\ Len(log) = 2
    /\ log[1].outcome = "Failed"
    /\ log[2].outcome = "Submitted"
    /\ Len(trades_executed) = 1

\* the last entry of the list execute_trades is building
LastTrade == trades[Len(trades)]

\* C14: every buy is sized from the buying power that the same
\* place_buy_order call fetched, which is the buying power left by every
\* earlier order of the run, never a figure read before a previous buy.
C14_FreshBuyingPower ==
    /\ \A j \in SubmitCalls :
          calls[j].arg[1] = "BUY" =>
              /\ j > 2
              /\ calls[j - 2].op = "get_account"
              /\ calls[j - 1].op = "get_stock_latest_quote"
              /\ calls[j].arg[2] = Shares(calls[j - 2].arg, calls[j - 1].arg)
    /\ pc = "exec" /\ trades # <<>> /\ IsSubmitted(LastTrade)
          /\ LastTrade.action = "BUY" =>
              LastTrade.shares =
                  Shares(buying_power + LastTrade.shares * LastTrade.price,
                         LastTrade.price)

C14_Witness ==
    /\ pc = "exec"
    /\ Len(trades_executed) = 1
    /\ IsSubmitted(trades_executed[1])
    /\ trades_executed[1].action = "BUY"
    /\ trades # <<>>
    /\ IsSubmitted(LastTrade)
    /\ LastTrade.action = "BUY"
    /\ LastTrade.shares < trades_executed[1].shares
    /\ LastTrade.price = trades_executed[1].price

ReportTrades == IF daily_report = NoReport THEN <<>> ELSE daily_report.trades

IsOrderRecord(t) ==
    /\ t # None
    /\ { "symbol", "action", "shares", "status" } \subseteq DOMAIN t
    /\ t.symbol \in RunSymbols
    /\ t.action \in { "BUY", "SELL" }
    /\ t.shares \in Nat
    /\ t.shares >= 1
    /\ t.status \in { "DRY_RUN", "SUBMITTED", "SKIPPED_NO_POSITION", "FAILED" }

\* C15: every entry of the trade list execute_trades returns, and of the
\* trade list of the report, is an order record with a symbol, an action,
\* a share count >= 1 and a status; the list holds no absent entry.
C15_TradeEntriesAreOrders ==
    /\ \A i \in DOMAIN TradesSoFar : IsOrderRecord(TradesSoFar[i])
    /\ \A i \in DOMAIN ReportTrades : IsOrderRecord(ReportTrades[i])

\* the call made last is an account fetch that failed
AccountFetchFailed ==
    calls # <<>> /\ calls[Len(calls)] = Call("get_account", "", 0)

\* C16: a failed account fetch never aborts the run, wherever it happens:
\* the run does not fail on it before its report is built (start-of-run
\* snapshot), and once the report is built every requested symbol was
\* evaluated (buy sizing, report generation).
C16_AccountFailureIsRecoverable ==
    /\ ~(pc = "failed" /\ daily_report = NoReport /\ AccountFetchFailed)
    /\ pc \in ReportStages => AnalyzedSymbols = RequestedSymbols

Missing(a, b) == a \in { Unset, <<>> } /\ b \in { Unset, <<>> }

\* a symbol list that names no symbol: nothing but commas and blanks
NamesNoSymbol(str) ==
    str # Unset /\ \A i \in DOMAIN str : str[i] \in { ",", " " }

\* C17: the construction of Config fails with a configuration error, and
\* the run stops before any symbol is evaluated, whenever the API key or
\* the secret is missing or TRADING_SYMBOLS names no symbol (empty or blank
\* string included).
C17_ConfigErrors ==
    pc # "config"
    /\ (\/ Missing(env.ALPACA_API_KEY, env.APCA_API_KEY_ID)
        \/ Missing(env.ALPACA_SECRET, env.APCA_API_SECRET_KEY)
        \/ NamesNoSymbol(env.TRADING_SYMBOLS))
    => /\ config.raised
       /\ pc = "failed"
       /\ trading_symbols = <<>>

\* the BUY and SELL actions of the per-symbol entries of a report, in order
RECURSIVE EntryActions(_)
EntryActions(entries) ==
    IF entries = <<>> THEN <<>>
    ELSE (IF Head(entries).action \in { "BUY", "SELL" }
          THEN << Head(entries).action >> ELSE <<>>)
         \o EntryActions(Tail(entries))

Distinct(s) == Cardinality({ s[i] : i \in DOMAIN s }) = Len(s)

\* C18 as claimed: one per-symbol entry for each symbol evaluation of the
\* run: symbols_analyzed is the number of symbols requested and
\* signals_generated the number of entries whose action is BUY or SELL.
C18_OneEntryPerEvaluation ==
    daily_report # NoReport =>
        /\ daily_report.analysis.symbols_analyzed = Len(trading_symbols)
        /\ Len(daily_report.symbols) = Len(trading_symbols)
        /\ daily_report.analysis.signals_generated
              = Len(EntryActions(daily_report.symbols))

\* C18: the report holds one per-symbol entry for each distinct symbol
\* evaluated, with the BUY or SELL signal of the symbol's last evaluation
\* or HOLD; signals_generated counts the signals of all evaluations, which
\* is the number of BUY/SELL entries when the requested symbols are distinct.
C18_OneEntryPerSymbol ==
    daily_report # NoReport =>
        LET entries == daily_report.symbols
            last == trading_symbols[Len(trading_symbols)]
        IN /\ daily_report.analysis.symbols_analyzed
                 = Cardinality(RequestedSymbols)
           /\ Len(entries) = Cardinality(RequestedSymbols)
           /\ { entries[i].symbol : i \in DOMAIN entries } = RequestedSymbols
           /\ daily_report.analysis.signals_generated = Len(all_signals)
           /\ \A i \in DOMAIN entries :
                 /\ entries[i].action \in { "BUY", "SELL", "HOLD" }
                 /\ entries[i].symbol = last =>
                       entries[i].action = (IF signals # <<>>
                                            THEN signals[1][1] ELSE "HOLD")
           /\ Distinct(trading_symbols) =>
                 EntryActions(entries)
                    = [i \in DOMAIN all_signals |-> all_signals[i][1]]

C18_Witness ==
    /\ daily_report # NoReport
    /\ trading_symbols = << "AAPL", "AAPL" >>
    /\ Len(daily_report.symbols) = 1
    /\ daily_report.symbols[1].action = "HOLD"
    /\ daily_report.analysis.signals_generated = 1

\* C8 as claimed: in dry-run mode as in live mode, every accepted signal is
\* sized and ends in exactly one terminal outcome.
C8_EverySignalHasOutcome ==
    pc \in ReportStages =>
        /\ Len(log) = Len(all_signals)
        /\ \A i \in DOMAIN log :
              log[i].outcome \in { "DryRunResult", "Submitted", "Failed",
                                   "SkippedNoPosition" }

\* C8: in live mode every accepted signal is sized and ends in exactly one
\* outcome among Submitted, Failed and SkippedNoPosition; in dry-run mode
\* main executes no signal (no sizing, no outcome); in both modes a signal
\* is never retried: at most one submission per accepted signal.
C8_OneOutcomePerExecutedSignal ==
    /\ Len(log) <= Len(all_signals)
    /\ \A i \in DOMAIN log :
          /\ log[i].action = all_signals[i][1]
          /\ log[i].outcome \in { "Submitted", "Failed", "SkippedNoPosition" }
    /\ Cardinality(SubmitCalls) <= Len(log)
    /\ Cardinality(Outcomes("Submitted")) <= Cardinality(SubmitCalls)
    /\ ~DRY_RUN =>
          Len(all_signals) - Len(log) = (IF pc = "exec" THEN Len(queue) ELSE 0)
    /\ DRY_RUN => log = <<>> /\ SubmitCalls = {} /\ QuoteCalls = {}

C8_Witness ==
    /\ pc = "done"
    /\ ~DRY_RUN
    /\ Len(all_signals) = 2
    /\ Cardinality(SubmitCalls) = 2
    /\ Cardinality(Outcomes("Submitted")) = 1
    /\ Cardinality(Outcomes("Failed")) = 1

\* nothing of the run has happened but, at most, the market-clock call
OnlyTheGate ==
    /\ Len(calls) <= 1
    /\ \A i \in DOMAIN calls : calls[i].op = "get_clock"
    /\ symbols_analyzed = <<>>
    /\ all_signals = <<>>
    /\ trades_executed = <<>>
    /\ log = <<>>
    /\ daily_report = NoReport
    /\ files = {}

\* should_run_today has not returned: main is constructing its Config or
\* its bot, or the Config has raised
BeforeTheGate ==
    \/ pc \in { "config", "start" }
    \/ pc = "failed" /\ config.raised

\* C30: in a run of main no account fetch, no signal generation, no order
\* submission and no report writing happens unless should_run_today has
\* returned true earlier in the run; when it returns false the run ends
\* with no order submitted and no report produced.
C30_GateBeforeWork ==
    /\ BeforeTheGate \/ pc = "skipped" => OnlyTheGate
    /\ pc = "skipped" =>
          \A i \in DOMAIN calls : calls[i].arg \in { "closed", "fail" }
    /\ ~BeforeTheGate /\ pc # "skipped" =>
          /\ calls # <<>>
          /\ calls[1].op = "get_clock"
          /\ calls[1].arg \in { "open", "fail" }

C30_Witness ==
    /\ pc = "skipped"
    /\ calls = << Call("get_clock", "", "closed") >>
    /\ OnlyTheGate

\* ------------------------------------------------------------------------
\* Properties of the stock selector
\* ------------------------------------------------------------------------
\* get_tradable_stocks_from_broker was called on a selector that has a
\* trading client, and has returned
CacheCall == pc = "fetched" /\ trading_client

\* the messages logged before the call made last
PriorLog ==
    IF result.calls = <<>> THEN selector_log
    ELSE SubSeq(selector_log, 1, Len(selector_log) - 2)

\* the positions in lg of the fetches that succeeded
SuccessfulFetches(lg) ==
    { i \in 1..(Len(lg) - 1) :
        /\ lg[i].msg = "Retrieving tradable stocks"
        /\ lg[i + 1].msg = "Retrieved tradable stocks" }

\* the position in lg of the latest fetch that succeeded
LatestFetch(lg) ==
    CHOOSE i \in SuccessfulFetches(lg) :
        \A j \in SuccessfulFetches(lg) : j <= i

SameFilter(a, b) == Sorted(a) = Sorted(b)

\* C24 as claimed: once the universe has been fetched for a filter, every
\* later call with use_cache and the same filter is answered from the cache
\* without a broker call, whatever calls with other filters were made in
\* between.
C24_CacheNeverInvalidated ==
    ( /\ CacheCall
      /\ selection.use_cache
      /\ \E i \in SuccessfulFetches(PriorLog) :
            SameFilter(PriorLog[i].arg, selection.exchanges) )
    => result.calls = <<>>

\* C24: the cache holds one entry, that of the latest fetch that succeeded:
\* a call is answered from the cache without a broker call exactly when
\* use_cache is set and the latest successful fetch had the same filter,
\* and the answer is then the list that fetch retrieved.
C24_CacheHoldsLatestFetch ==
    CacheCall =>
        /\ result.calls = <<>> <=>
              /\ selection.use_cache
              /\ SuccessfulFetches(PriorLog) # {}
              /\ SameFilter(PriorLog[LatestFetch(PriorLog)].arg,
                            selection.exchanges)
        /\ result.calls = <<>> =>
              /\ broker_universe_cache = Cached(result.value)
              /\ PriorLog[LatestFetch(PriorLog) + 1].arg
                    = << Len(result.value) >>

C24_Witness ==
    /\ CacheCall
    /\ selection.use_cache
    /\ \E i \in SuccessfulFetches(PriorLog) :
          SameFilter(PriorLog[i].arg, selection.exchanges)
    /\ ~SameFilter(PriorLog[LatestFetch(PriorLog)].arg, selection.exchanges)
    /\ result.calls # <<>>

\* the symbols of the assets that are tradable, fractionable and shortable
\* and, under a filter, listed on one of its exchanges
Eligible(assets, exchanges) ==
    { assets[i].symbol : i \in
        { j \in DOMAIN assets :
            /\ assets[j].tradable
            /\ assets[j].fractionable
            /\ assets[j].shortable
            /\ exchanges # <<>> =>
                  \E k \in DOMAIN exchanges :
                      assets[j].exchange \in
                          { exchanges[k],
                            ASSET_EXCHANGE_PREFIX \o exchanges[k] } } }

\* C25: a call whose filter differs from the filter of the cached entry is
\* never answered from the cache: it queries the broker again, and the list
\* returned is the one fetched with the requested filter, or the empty list
\* when the fetch fails.
C25_NoAnswerAcrossFilters ==
    ( /\ CacheCall
      /\ SuccessfulFetches(PriorLog) # {}
      /\ Elements(PriorLog[LatestFetch(PriorLog)].arg)
            # Elements(selection.exchanges) )
    => /\ Len(result.calls) = 1
       /\ result.calls[1].op = "get_all_assets"
       /\ LET answer == result.calls[1].arg
          IN IF answer.raised THEN result.value = <<>>
             ELSE /\ Elements(result.value)
                       = Eligible(answer.assets, selection.exchanges)
                  /\ broker_universe_cache = Cached(result.value)

C25_Witness ==
    /\ CacheCall
    /\ selection.use_cache
    /\ SuccessfulFetches(PriorLog) # {}
    /\ PriorLog[LatestFetch(PriorLog)].arg = << NYSE >>
    /\ selection.exchanges = << NASDAQ, NYSE >>
    /\ result.calls # <<>>
    /\ result.value = << "AAPL", "JPM" >>

\* select_stocks was called with use_broker_universe and the broker list it
\* got is not empty
BrokerUniverseUsed ==
    /\ pc = "selected"
    /\ selection.use_broker_universe
    /\ selection.broker_stocks # <<>>

\* C26: when select_stocks is called with use_broker_universe and the
\* broker list is not empty, every symbol returned belongs to the broker
\* list, whatever the selection method, and after the call, also one that
\* raised, get_all_symbols is the method of the class again.
C26_SelectsFromBrokerUniverse ==
    BrokerUniverseUsed =>
        /\ ~result.raised =>
              Elements(result.value) \subseteq Elements(selection.broker_stocks)
        /\ get_all_symbols \in { None, [original |-> TRUE] }

====
